---------------------------- MODULE Spec2Model ----------------------------
(***************************************************************************)
(* Verification model of the taxi-fitness decision pipeline of Car_class   *)
(* (src/car_state/expert_analyzer.py, src/car_state/analyze_car_image.py). *)
(*                                                                         *)
(* Numbers.  Every real number of the program is represented by the        *)
(* integer 1000 * value (fixed point, three decimals):                     *)
(*     confidence 0.8      -> 800                                          *)
(*     probability 0.75    -> 750                                          *)
(*     percentage 75.0     -> 75000                                        *)
(*     brown_ratio 0.15    -> 150                                          *)
(*     color_diversity 80  -> 80000                                        *)
(*     dirt_score 1.5      -> 1500                                         *)
(* so that  probabilities[2] * 100  and  100 - major_damage_prob  are the  *)
(* integer operations  p * 100  and  100000 - x.  Every comparison of the  *)
(* code is against a constant with at most three decimals, so it is exact  *)
(* on this grid.                                                           *)
(*                                                                         *)
(* Text.  A line of report text is a record [text, args]: text is a short  *)
(* English tag for the (Russian) literal of the source line, args the      *)
(* sequence of the numbers the f-string interpolates, already formatted.   *)
(***************************************************************************)
EXTENDS Integers, Sequences, FiniteSets

VARIABLES call, prev, reqs

vars == <<call, prev, reqs>>

(***************************************************************************)
(* Bounds of the model.                                                    *)
(***************************************************************************)
\* Inputs are taken on both sides of every threshold of the code, at
\* distances 0..NearSteps (in units of 0.001).
NearSteps == 1

Near(t) == {t + k : k \in (0 - NearSteps)..NearSteps}

(***************************************************************************)
(* Formatting                                                              *)
(***************************************************************************)
\* (a * 2^k) modulo d.
RECURSIVE ShiftMod(_, _, _)
ShiftMod(a, k, d) == IF k = 0 THEN a % d ELSE (2 * ShiftMod(a, k - 1, d)) % d

\* The binary exponent e of the float x/d (x > 0): 2^e <= x/d < 2^(e+1).
RECURSIVE BinaryExponent(_, _)
BinaryExponent(x, d) ==
    IF x >= 2 * d THEN BinaryExponent(x \div 2, d) + 1
    ELSE IF x < d THEN BinaryExponent(2 * x, d) - 1
    ELSE 0

\* The float that holds x/d is the nearest multiple of 2^(e-52); this is the
\* remainder (in d-ths of that unit) that the conversion drops: 0 when x/d
\* is a float exactly, below d/2 when the float is smaller than x/d, above
\* d/2 when it is larger.
FloatRemainder(x, d) == ShiftMod(x % d, 52 - BinaryExponent(x, d), d)

\* The float x/d (x >= 0) rounded to a multiple of step/d, as a count of
\* steps.  Python rounds the float, not the decimal: a decimal tie goes to
\* the side the float lies on (0.35 -> "0.3", 0.45 -> "0.5"), and half to
\* even only when the float is the tie exactly (0.25 -> "0.2", 0.75 -> "0.8").
RoundFloat(x, d, step) ==
    LET q == x \div step
        r == x % step
    IN  IF 2 * r < step THEN q
        ELSE IF 2 * r > step THEN q + 1
        ELSE IF FloatRemainder(x, d) = 0 THEN (IF q % 2 = 0 THEN q ELSE q + 1)
        ELSE IF 2 * FloatRemainder(x, d) < d THEN q
        ELSE q + 1

\* f"{x:.1f}": x rounded to one decimal, returned as the number of tenths
\* (75.04 -> 750, read "75.0").
FormatTenthsNonNeg(x) == RoundFloat(x, 1000, 100)

\* The number of tenths has no sign of its own when it is zero: the "-0.0"
\* Python prints for a negative value that rounds to zero is the number 0.
Format1f(x) == IF x >= 0 THEN FormatTenthsNonNeg(x) ELSE 0 - FormatTenthsNonNeg(0 - x)

\* f"{x:.4f}" of a value held in 100000ths (f1_score 0.91234 is 91234),
\* returned as the number of ten-thousandths (9123, read "0.9123").
Format4f(x) == IF x >= 0 THEN RoundFloat(x, 100000, 10) ELSE 0 - RoundFloat(0 - x, 100000, 10)

Line(t) == [text |-> t, args |-> <<>>]

LineF(t, v) == [text |-> t, args |-> <<v>>]

LineF2(t, v, w) == [text |-> t, args |-> <<v, w>>]

(***************************************************************************)
(* determine_repairability (expert_analyzer.py:143-235)                    *)
(***************************************************************************)
TAXI_BAN_THRESHOLD == 75000

REPAIR_REQUIRED_THRESHOLD == 50000

CONDITIONAL_THRESHOLD == 25000

MINOR_DAMAGE_TAXI_LIMIT == 40000

\* f"{TAXI_BAN_THRESHOLD}%": the float's repr, "75.0", as a number of tenths.
ReprTenths(x) == x \div 100

msgs_taxi_banned(major_damage_prob) ==
    << Line("CAR BANNED FROM TAXI WORK"),
       LineF("probability of critical damage %", Format1f(major_damage_prob)),
       LineF("safety limit exceeded (%)", ReprTenths(TAXI_BAN_THRESHOLD)),
       Line("RISKS: threat to passengers and driver"),
       Line("REPUTATION: serious damage to the fleet's image"),
       Line("LAW: violates commercial transport requirements"),
       Line("DECISION: remove from fleet, sell or scrap") >>

msgs_repair_required(major_damage_prob) ==
    << Line("MANDATORY REPAIR BEFORE ADMISSION"),
       LineF("probability of serious damage %", Format1f(major_damage_prob)),
       LineF("admission threshold exceeded (%)", ReprTenths(REPAIR_REQUIRED_THRESHOLD)),
       Line("STATUS: TEMPORARILY EXCLUDED from operation"),
       Line("REQUIREMENTS: major repair + inspection"),
       Line("expected cost: 150-500 thousand rub."),
       Line("certification required after repair"),
       Line("downtime: 2-4 weeks") >>

msgs_restricted_operation(major_damage_prob) ==
    << Line("CONDITIONALLY ADMITTED WITH RESTRICTIONS"),
       LineF("probability of serious damage %", Format1f(major_damage_prob)),
       LineF2("in the border zone (%-%)", ReprTenths(CONDITIONAL_THRESHOLD),
              ReprTenths(REPAIR_REQUIRED_THRESHOLD)),
       Line("RESTRICTIONS: city trips only"),
       Line("BAN: intercity trips and VIP clients"),
       Line("CONTROL: weekly inspections"),
       Line("INSURANCE: raised tariffs"),
       Line("PLAN: scheduled repair within a month") >>

msgs_cosmetic_repair(major_damage_prob) ==
    << Line("COSMETIC REPAIR RECOMMENDED"),
       LineF("probability of serious damage %", Format1f(major_damage_prob)),
       Line("admissible for taxi work"),
       Line("IMAGE: visible defects should be removed"),
       Line("cost: 50-150 thousand rub. for cosmetics"),
       Line("RATING: helps keep high ratings") >>

msgs_image_improvement(minor_damage_prob) ==
    << Line("COSMETIC REPAIR DESIRABLE FOR TAXI"),
       LineF("noticeable cosmetic defects %", Format1f(minor_damage_prob)),
       Line("SAFETY: does not affect driving safety"),
       Line("IMAGE: may lower rating and appeal"),
       Line("cost of removal: 30-100 thousand rub."),
       Line("REVIEWS: negative comments on appearance possible"),
       Line("RECOMMENDATION: scheduled cosmetic repair") >>

msgs_minor_maintenance ==
    << Line("FIT FOR TAXI WORK"),
       Line("minimal cosmetic defects"),
       Line("fully fit for commercial transport"),
       Line("cost: 10-50 thousand rub. for minor repair"),
       Line("repair time: 1-3 days"),
       Line("keeps the service's good rating") >>

msgs_premium_ready ==
    << Line("IDEAL FOR PREMIUM TAXI SERVICE"),
       Line("car in excellent condition"),
       Line("CLASS: suits VIP and business clients"),
       Line("RATING: ensures top passenger ratings"),
       Line("TARIFFS: can work in the premium segment"),
       Line("STATUS: the fleet's quality benchmark") >>

\* Line 161: the guard of the ban branch.
is_taxi_banned_ge(confidence, major_damage_prob) ==
    confidence >= 800 /\ major_damage_prob >= TAXI_BAN_THRESHOLD

is_taxi_banned(confidence, major_damage_prob) ==
    confidence > 800 /\ major_damage_prob > TAXI_BAN_THRESHOLD

\* Line 172: the guard of the repair branch.
is_repair_required_and(confidence, major_damage_prob) ==
    confidence > 600 /\ major_damage_prob > REPAIR_REQUIRED_THRESHOLD

is_repair_required(confidence, major_damage_prob) ==
    confidence > 600 \/ major_damage_prob > REPAIR_REQUIRED_THRESHOLD

\* Line 184: the guard of the restricted-operation branch.
is_restricted_operation_ge(major_damage_prob) ==
    major_damage_prob >= CONDITIONAL_THRESHOLD

is_restricted_operation(major_damage_prob) ==
    major_damage_prob > CONDITIONAL_THRESHOLD

\* Line 207: the guard of the image-improvement branch.
is_image_improvement_or(confidence, minor_damage_prob) ==
    confidence > 600 \/ minor_damage_prob > MINOR_DAMAGE_TAXI_LIMIT

is_image_improvement(confidence, minor_damage_prob) ==
    confidence > 600 /\ minor_damage_prob > MINOR_DAMAGE_TAXI_LIMIT

\* Lines 161-203: the cascade under predicted_class == 'major_damage'.
\* Mutant: the last else returns nothing (Python's None).
major_damage_branch_fallthrough(confidence, major_damage_prob) ==
    IF is_taxi_banned(confidence, major_damage_prob) THEN
        <<"taxi_banned", msgs_taxi_banned(major_damage_prob), "safety_violation">>
    ELSE IF is_repair_required(confidence, major_damage_prob) THEN
        <<"repair_required", msgs_repair_required(major_damage_prob), "mandatory_repair">>
    ELSE IF is_restricted_operation(major_damage_prob) THEN
        <<"conditional_taxi", msgs_restricted_operation(major_damage_prob),
          "restricted_operation">>
    ELSE
        <<"None">>

major_damage_branch(confidence, major_damage_prob) ==
    IF is_taxi_banned(confidence, major_damage_prob) THEN
        <<"taxi_banned", msgs_taxi_banned(major_damage_prob), "safety_violation">>
    ELSE IF is_repair_required(confidence, major_damage_prob) THEN
        <<"repair_required", msgs_repair_required(major_damage_prob), "mandatory_repair">>
    ELSE IF is_restricted_operation(major_damage_prob) THEN
        <<"conditional_taxi", msgs_restricted_operation(major_damage_prob),
          "restricted_operation">>
    ELSE
        <<"conditional_taxi", msgs_cosmetic_repair(major_damage_prob), "cosmetic_repair">>

\* Lines 206-225: the cascade under predicted_class == 'minor_damage'.
\* Mutant: a minor_damage prediction with a high P_major is sent to repair.
minor_damage_branch_repair(confidence, major_damage_prob) ==
    LET minor_damage_prob == 100000 - major_damage_prob
    IN  IF major_damage_prob > REPAIR_REQUIRED_THRESHOLD THEN
            <<"repair_required", msgs_repair_required(major_damage_prob), "mandatory_repair">>
        ELSE IF is_image_improvement(confidence, minor_damage_prob) THEN
            <<"conditional_taxi", msgs_image_improvement(minor_damage_prob),
              "image_improvement">>
        ELSE
            <<"taxi_ready", msgs_minor_maintenance, "minor_maintenance">>

minor_damage_branch(confidence, major_damage_prob) ==
    LET minor_damage_prob == 100000 - major_damage_prob
    IN  IF is_image_improvement(confidence, minor_damage_prob) THEN
            <<"conditional_taxi", msgs_image_improvement(minor_damage_prob),
              "image_improvement">>
        ELSE
            <<"taxi_ready", msgs_minor_maintenance, "minor_maintenance">>

\* Lines 227-235: the final else, reached by every other class label.
\* Mutant: the premium tag is returned with the conditional status.
no_damage_branch_conditional == <<"conditional_taxi", msgs_premium_ready, "premium_ready">>

no_damage_branch == <<"taxi_ready", msgs_premium_ready, "premium_ready">>

\* Mutant: an uncertain no_damage prediction is downgraded.
determine_repairability_doubt(predicted_class, confidence, major_damage_prob) ==
    IF predicted_class = "major_damage" THEN
        major_damage_branch(confidence, major_damage_prob)
    ELSE IF predicted_class = "minor_damage" THEN
        minor_damage_branch(confidence, major_damage_prob)
    ELSE IF confidence <= 600 THEN
        <<"taxi_ready", msgs_minor_maintenance, "minor_maintenance">>
    ELSE
        no_damage_branch

\* The returned tuple (repairability_status, repairability_msgs, economic_status).
determine_repairability(predicted_class, confidence, major_damage_prob) ==
    IF predicted_class = "major_damage" THEN
        major_damage_branch(confidence, major_damage_prob)
    ELSE IF predicted_class = "minor_damage" THEN
        minor_damage_branch(confidence, major_damage_prob)
    ELSE
        no_damage_branch

(***************************************************************************)
(* Inputs of determine_repairability                                       *)
(***************************************************************************)
class_names == <<"no_damage", "minor_damage", "major_damage">>

ValidClasses == {class_names[i] : i \in 1..3}

\* A label that is none of class_names.
InvalidClasses == {"total_loss"}

\* The literal scenarios of the specification's section 8.
ScenarioConfidences == {500, 650, 700, 850, 950}

ScenarioMajorProbs == {30000, 40000, 55000, 80000, 90000}

\* confidence in (0, 1]
ValidConfidences ==
    {c \in ({1, 1000} \cup Near(600) \cup Near(800) \cup ScenarioConfidences) :
        c > 0 /\ c <= 1000}

InvalidConfidences == {-1, 0, 1001}

\* P_major in [0, 100]; 60 is where minor_severity = 100 - P_major crosses 40.
ValidMajorProbs ==
    {p \in ({0, 100000} \cup Near(CONDITIONAL_THRESHOLD) \cup Near(REPAIR_REQUIRED_THRESHOLD)
            \cup Near(100000 - MINOR_DAMAGE_TAXI_LIMIT) \cup Near(TAXI_BAN_THRESHOLD)
            \cup ScenarioMajorProbs) :
        p >= 0 /\ p <= 100000}

InvalidMajorProbs == {-1, 100001}

NoCall == [fn |-> "idle"]

\* The runs of analyze_image_expert that may be in progress at one time, each
\* in a process of its own.
NumRequests == 2

Requests == 1..NumRequests

\* An unbound local variable.
Unbound == << >>

\* A run of analyze_image_expert that has not started:  pc  is the statement
\* it is at,  steps  the steps it has entered, in order,  done  those that
\* have completed,  error  the exception caught (line 587),  raised  whether
\* an exception left the function,  console  the lines printed; the other
\* fields are the locals of the function.
IdleRequest ==
    [pc |-> "idle", steps |-> << >>, done |-> {}, error |-> "none",
     raised |-> FALSE, console |-> << >>,
     image_filename |-> "none", model |-> "none", original_image |-> Unbound,
     dirt |-> Unbound,
     prediction |-> Unbound, expert_report |-> Unbound]

Init ==
    /\ call = NoCall
    /\ prev = NoCall
    /\ reqs = [r \in Requests |-> IdleRequest]

\* A caller invokes determine_repairability(predicted_class, confidence, major_damage_prob).
Call_determine_repairability ==
    /\ call.fn = "idle"
    /\ \E predicted_class \in ValidClasses \cup InvalidClasses,
          confidence \in ValidConfidences \cup InvalidConfidences,
          major_damage_prob \in ValidMajorProbs \cup InvalidMajorProbs :
         call' = [fn |-> "determine_repairability",
                  predicted_class |-> predicted_class,
                  confidence |-> confidence,
                  major_damage_prob |-> major_damage_prob,
                  raised |-> FALSE,
                  ret |-> determine_repairability(predicted_class, confidence,
                                                  major_damage_prob)]
    /\ prev' = NoCall
    /\ UNCHANGED reqs

\* The call returns; the functions keep no state between calls.
Return ==
    /\ call.fn # "idle"
    /\ call' = NoCall
    /\ prev' = NoCall
    /\ UNCHANGED reqs

NextDecision == Call_determine_repairability \/ Return

SpecDecision == Init /\ [][NextDecision]_vars

\* A second call of determine_repairability with the same class and
\* confidence and a larger major_damage_prob; the first call is kept in prev.
Rerun_determine_repairability ==
    /\ call.fn = "determine_repairability"
    /\ prev = NoCall
    /\ \E major_damage_prob \in {x \in ValidMajorProbs \cup InvalidMajorProbs : x > call.major_damage_prob} :
         call' = [fn |-> "determine_repairability",
                  predicted_class |-> call.predicted_class,
                  confidence |-> call.confidence,
                  major_damage_prob |-> major_damage_prob,
                  raised |-> FALSE,
                  ret |-> determine_repairability(call.predicted_class, call.confidence,
                                                  major_damage_prob)]
    /\ prev' = call
    /\ UNCHANGED reqs

NextRaise == Call_determine_repairability \/ Rerun_determine_repairability \/ Return

SpecRaise == Init /\ [][NextRaise]_vars

(***************************************************************************)
(* analyze_dirt_level (expert_analyzer.py:46-141, analyze_car_image.py:    *)
(* 52-142).  The six image statistics (lines 48-79) are inputs of the      *)
(* model; the score and the label are computed from them as the code does. *)
(***************************************************************************)
\* The five labels, as the words of the source's string literals:
\* "очень грязная", "грязная", "слегка грязная", "достаточно чистая",
\* "очень чистая".
VERY_DIRTY == <<"ochen", "gryaznaya">>

DIRTY == <<"gryaznaya">>

SLIGHTLY_DIRTY == <<"slegka", "gryaznaya">>

FAIRLY_CLEAN == <<"dostatochno", "chistaya">>

VERY_CLEAN == <<"ochen", "chistaya">>

\* Lines 84-87.
color_diversity_points(color_diversity) ==
    IF color_diversity < 80000 THEN 2000
    ELSE IF color_diversity < 120000 THEN 1000
    ELSE 0

\* Lines 89-92.
\* Mutant: the two weights exchanged.
contrast_points_swapped(contrast) ==
    IF contrast < 25000 THEN 1000
    ELSE IF contrast < 40000 THEN 2000
    ELSE 0

contrast_points(contrast) ==
    IF contrast < 25000 THEN 2000
    ELSE IF contrast < 40000 THEN 1000
    ELSE 0

\* Lines 94-97.
saturation_points_le(saturation) ==
    IF saturation <= 60000 THEN 1500
    ELSE IF saturation <= 100000 THEN 500
    ELSE 0

saturation_points(saturation) ==
    IF saturation < 60000 THEN 1500
    ELSE IF saturation < 100000 THEN 500
    ELSE 0

\* Lines 99-102.
brown_ratio_points(brown_ratio) ==
    IF brown_ratio > 150 THEN 2000
    ELSE IF brown_ratio > 80 THEN 1000
    ELSE 0

\* Lines 104-107.
edge_intensity_points(edge_intensity) ==
    IF edge_intensity < 15000 THEN 1500
    ELSE IF edge_intensity < 25000 THEN 500
    ELSE 0

\* Lines 109-112.
\* Mutant: the weight of the darkest band as for saturation.
brightness_points_heavy(brightness) ==
    IF brightness < 90000 THEN 1500
    ELSE IF brightness < 110000 THEN 500
    ELSE 0

brightness_points(brightness) ==
    IF brightness < 90000 THEN 1000
    ELSE IF brightness < 110000 THEN 500
    ELSE 0

\* Lines 82-112: dirt_score = 0, then the six  dirt_score += ...  in order.
compute_dirt_score(m) ==
    LET s0 == 0
        s1 == s0 + color_diversity_points(m.color_diversity)
        s2 == s1 + contrast_points(m.contrast)
        s3 == s2 + saturation_points(m.saturation)
        s4 == s3 + brown_ratio_points(m.brown_ratio)
        s5 == s4 + edge_intensity_points(m.edge_intensity)
        s6 == s5 + brightness_points(m.brightness)
    IN  s6

\* Lines 115-129: (status, emoji) of a score.
\* Mutant: open lower bounds.
dirt_status_of_gt(dirt_score) ==
    IF dirt_score > 6000 THEN <<VERY_DIRTY, "brown circle">>
    ELSE IF dirt_score > 4000 THEN <<DIRTY, "brown square">>
    ELSE IF dirt_score > 2000 THEN <<SLIGHTLY_DIRTY, "yellow square">>
    ELSE IF dirt_score > 1000 THEN <<FAIRLY_CLEAN, "green square">>
    ELSE <<VERY_CLEAN, "sparkles">>

dirt_status_of(dirt_score) ==
    IF dirt_score >= 6000 THEN <<VERY_DIRTY, "brown circle">>
    ELSE IF dirt_score >= 4000 THEN <<DIRTY, "brown square">>
    ELSE IF dirt_score >= 2000 THEN <<SLIGHTLY_DIRTY, "yellow square">>
    ELSE IF dirt_score >= 1000 THEN <<FAIRLY_CLEAN, "green square">>
    ELSE <<VERY_CLEAN, "sparkles">>

\* expert_analyzer.py:81-141: the tuple (status, emoji, dirt_score, metrics).
analyze_dirt_level(m) ==
    LET dirt_score == compute_dirt_score(m)
        label == dirt_status_of(dirt_score)
        metrics == [color_diversity |-> m.color_diversity,
                    contrast |-> m.contrast,
                    saturation |-> m.saturation,
                    brown_ratio |-> m.brown_ratio,
                    edge_intensity |-> m.edge_intensity,
                    brightness |-> m.brightness,
                    dirt_score |-> dirt_score]
    IN  <<label[1], label[2], dirt_score, metrics>>

\* analyze_car_image.py:94-130.
\* Mutant: the copy has drifted: its darkest brightness band weighs 1.5.
aci_compute_dirt_score_drift(m) ==
    LET s0 == 0
        s1 == s0 + (IF m.color_diversity < 80000 THEN 2000
                    ELSE IF m.color_diversity < 120000 THEN 1000 ELSE 0)
        s2 == s1 + (IF m.contrast < 25000 THEN 2000
                    ELSE IF m.contrast < 40000 THEN 1000 ELSE 0)
        s3 == s2 + (IF m.saturation < 60000 THEN 1500
                    ELSE IF m.saturation < 100000 THEN 500 ELSE 0)
        s4 == s3 + (IF m.brown_ratio > 150 THEN 2000
                    ELSE IF m.brown_ratio > 80 THEN 1000 ELSE 0)
        s5 == s4 + (IF m.edge_intensity < 15000 THEN 1500
                    ELSE IF m.edge_intensity < 25000 THEN 500 ELSE 0)
        s6 == s5 + (IF m.brightness < 90000 THEN 1500
                    ELSE IF m.brightness < 110000 THEN 500 ELSE 0)
    IN  s6

aci_compute_dirt_score(m) ==
    LET s0 == 0
        s1 == s0 + (IF m.color_diversity < 80000 THEN 2000
                    ELSE IF m.color_diversity < 120000 THEN 1000 ELSE 0)
        s2 == s1 + (IF m.contrast < 25000 THEN 2000
                    ELSE IF m.contrast < 40000 THEN 1000 ELSE 0)
        s3 == s2 + (IF m.saturation < 60000 THEN 1500
                    ELSE IF m.saturation < 100000 THEN 500 ELSE 0)
        s4 == s3 + (IF m.brown_ratio > 150 THEN 2000
                    ELSE IF m.brown_ratio > 80 THEN 1000 ELSE 0)
        s5 == s4 + (IF m.edge_intensity < 15000 THEN 1500
                    ELSE IF m.edge_intensity < 25000 THEN 500 ELSE 0)
        s6 == s5 + (IF m.brightness < 90000 THEN 1000
                    ELSE IF m.brightness < 110000 THEN 500 ELSE 0)
    IN  s6

\* analyze_car_image.py:132-142: the tuple (status, emoji, details), details
\* being f"(индекс грязи: {dirt_score:.1f})".
aci_analyze_dirt_level(m) ==
    LET dirt_score == aci_compute_dirt_score(m)
        details == LineF("(dirt index: %)", Format1f(dirt_score))
    IN  IF dirt_score >= 6000 THEN <<VERY_DIRTY, "replacement character", details>>
        ELSE IF dirt_score >= 4000 THEN <<DIRTY, "brown square", details>>
        ELSE IF dirt_score >= 2000 THEN <<SLIGHTLY_DIRTY, "yellow square", details>>
        ELSE IF dirt_score >= 1000 THEN <<FAIRLY_CLEAN, "green square", details>>
        ELSE <<VERY_CLEAN, "sparkles", details>>

(***************************************************************************)
(* Inputs of analyze_dirt_level: the six statistics of an image.           *)
(***************************************************************************)
AtAndBelow(t) == {t - k : k \in 0..NearSteps}

AtAndAbove(t) == {t + k : k \in 0..NearSteps}

\* A statistic the code compares with  < lo  and  < hi : the values at and
\* just below each threshold, and one far on the clean side.
LowIsDirty(lo, hi, clean) == AtAndBelow(lo) \cup AtAndBelow(hi) \cup {clean}

ColorDiversityValues == LowIsDirty(80000, 120000, 256000)

ContrastValues == LowIsDirty(25000, 40000, 90000)

SaturationValues == LowIsDirty(60000, 100000, 255000)

\* brown_ratio is compared with  > 0.15  and  > 0.08.
BrownRatioValues == AtAndAbove(150) \cup AtAndAbove(80) \cup {0}

EdgeIntensityValues == LowIsDirty(15000, 25000, 60000)

BrightnessValues == LowIsDirty(90000, 110000, 255000)

ImageMetrics ==
    [color_diversity : ColorDiversityValues,
     contrast : ContrastValues,
     saturation : SaturationValues,
     brown_ratio : BrownRatioValues,
     edge_intensity : EdgeIntensityValues,
     brightness : BrightnessValues]

\* expert_analyzer.analyze_dirt_level on an image with statistics m.
Call_analyze_dirt_level ==
    /\ call.fn = "idle"
    /\ \E m \in ImageMetrics :
         call' = [fn |-> "analyze_dirt_level", image |-> m,
                  ret |-> analyze_dirt_level(m)]
    /\ prev' = NoCall
    /\ UNCHANGED reqs

\* analyze_car_image.analyze_dirt_level on an image with statistics m.
Call_aci_analyze_dirt_level ==
    /\ call.fn = "idle"
    /\ \E m \in ImageMetrics :
         call' = [fn |-> "aci_analyze_dirt_level", image |-> m,
                  ret |-> aci_analyze_dirt_level(m)]
    /\ prev' = NoCall
    /\ UNCHANGED reqs

NextDirt == Call_analyze_dirt_level \/ Call_aci_analyze_dirt_level \/ Return

SpecDirt == Init /\ [][NextDirt]_vars

\* The images that are image m with one statistic moved towards its dirty
\* end: one of the five compared with < lowered, or brown_ratio raised.
DirtierImages(m) ==
    {[m EXCEPT !.color_diversity = v] : v \in {x \in ColorDiversityValues : x < m.color_diversity}}
    \cup {[m EXCEPT !.contrast = v] : v \in {x \in ContrastValues : x < m.contrast}}
    \cup {[m EXCEPT !.saturation = v] : v \in {x \in SaturationValues : x < m.saturation}}
    \cup {[m EXCEPT !.brown_ratio = v] : v \in {x \in BrownRatioValues : x > m.brown_ratio}}
    \cup {[m EXCEPT !.edge_intensity = v] : v \in {x \in EdgeIntensityValues : x < m.edge_intensity}}
    \cup {[m EXCEPT !.brightness = v] : v \in {x \in BrightnessValues : x < m.brightness}}

\* A second call of expert_analyzer.analyze_dirt_level, on an image that is
\* the first call's image with one statistic dirtier.
Rerun_analyze_dirt_level ==
    /\ call.fn = "analyze_dirt_level"
    /\ prev = NoCall
    /\ \E m \in DirtierImages(call.image) :
         call' = [fn |-> "analyze_dirt_level", image |-> m,
                  ret |-> analyze_dirt_level(m)]
    /\ prev' = call
    /\ UNCHANGED reqs

NextDirtier == Call_analyze_dirt_level \/ Rerun_analyze_dirt_level \/ Return

SpecDirtier == Init /\ [][NextDirtier]_vars

\* analyze_car_image.analyze_dirt_level run on the image that
\* expert_analyzer.analyze_dirt_level has just analysed; the first result is
\* kept in prev.
Rerun_aci_analyze_dirt_level ==
    /\ call.fn = "analyze_dirt_level"
    /\ prev = NoCall
    /\ call' = [fn |-> "aci_analyze_dirt_level", image |-> call.image,
                ret |-> aci_analyze_dirt_level(call.image)]
    /\ prev' = call
    /\ UNCHANGED reqs

NextEquivalent == Call_analyze_dirt_level \/ Rerun_aci_analyze_dirt_level \/ Return

SpecEquivalent == Init /\ [][NextEquivalent]_vars

(***************************************************************************)
(* get_human_comment (analyze_car_image.py:144-195)                        *)
(***************************************************************************)
\* Python's  needle in haystack  on strings, for strings made of whole
\* words: the words of needle occur in haystack, adjacent and in order.
ContainsWords(needle, haystack) ==
    \E k \in 0..(Len(haystack) - Len(needle)) :
        \A i \in 1..Len(needle) : haystack[k + i] = needle[i]

\* Lines 149-179: the comments on the damage.
damage_comments(predicted_class, confidence) ==
    IF predicted_class = "no_damage" THEN
        IF confidence > 800 THEN
            << Line("car in excellent condition"),
               Line("no visible damage found") >>
        ELSE IF confidence > 600 THEN
            << Line("car looks good, but worth a closer look") >>
        ELSE
            << Line("hard to say exactly - a more detailed inspection is needed") >>
    ELSE IF predicted_class = "minor_damage" THEN
        IF confidence > 700 THEN
            << Line("minor damage - nothing critical"),
               Line("perhaps a couple of scratches or small dents"),
               Line("car fit for use") >>
        ELSE
            << Line("looks like minor damage, but better to check") >>
    ELSE
        IF confidence > 900 THEN
            << Line("CAR COMPLETELY DESTROYED"),
               Line("car NOT FIT for restoration"),
               Line("scrapping recommended") >>
        ELSE IF confidence > 800 THEN
            << Line("car seriously damaged"),
               Line("major repair required"),
               Line("not recommended for use without repair") >>
        ELSE IF confidence > 600 THEN
            << Line("serious damage - expertise needed"),
               Line("possibly expensive repair") >>
        ELSE
            << Line("suspected serious damage") >>

\* Lines 182-193: the comments on the cleanliness, selected by substring
\* tests on the label, in this order.
cleanliness_comments(dirt_status) ==
    IF ContainsWords(VERY_DIRTY, dirt_status) THEN
        << Line("car in terrible cleanliness - true damage cannot be assessed"),
           Line("professional wash urgently required") >>
    ELSE IF ContainsWords(DIRTY, dirt_status) THEN
        << Line("car needs a good wash"),
           Line("dirt hinders accurate assessment") >>
    ELSE IF ContainsWords(SLIGHTLY_DIRTY, dirt_status) THEN
        << Line("a little dust - overall acceptable") >>
    ELSE IF ContainsWords(FAIRLY_CLEAN, dirt_status) THEN
        << Line("car in good cleanliness") >>
    ELSE
        << Line("car perfectly clean - all details clearly visible") >>

\* Lines 144-195: the list  comments.
get_human_comment(predicted_class, confidence, dirt_status) ==
    damage_comments(predicted_class, confidence) \o cleanliness_comments(dirt_status)

\* The confidences at and next to the thresholds 0.6, 0.7, 0.8 and 0.9, and
\* the ends of (0, 1].
CommentConfidences ==
    Near(600) \cup Near(700) \cup Near(800) \cup Near(900) \cup {1, 1000}

\* analyze_car_image.predict_damage calls get_human_comment with the class
\* and confidence of the model and the label of analyze_dirt_level.
Call_get_human_comment ==
    /\ call.fn = "idle"
    /\ \E predicted_class \in ValidClasses \cup InvalidClasses,
          confidence \in CommentConfidences,
          dirt_status \in {VERY_DIRTY, DIRTY, SLIGHTLY_DIRTY, FAIRLY_CLEAN, VERY_CLEAN} :
         call' = [fn |-> "get_human_comment",
                  predicted_class |-> predicted_class,
                  confidence |-> confidence,
                  dirt_status |-> dirt_status,
                  ret |-> get_human_comment(predicted_class, confidence, dirt_status)]
    /\ prev' = NoCall
    /\ UNCHANGED reqs

NextComment == Call_get_human_comment \/ Return

SpecComment == Init /\ [][NextComment]_vars

(***************************************************************************)
(* generate_expert_assessment (expert_analyzer.py:237-463)                 *)
(***************************************************************************)
\* The three lines of a boxed section title.
Box(title) == << Line("box top"), Line(title), Line("box bottom") >>

\* Lines 243-252.
header_block ==
    Box("DAMAGE STATE")
    \o << Line("EXPERT CONCLUSION FOR TAXI SERVICE"),
          Line("======"),
          Line("OVERALL ASSESSMENT OF TECHNICAL CONDITION:") >>

\* Lines 263-314: the general assessment of the predicted class.
damage_block(predicted_class, confidence, no_damage_prob, minor_damage_prob, major_damage_prob) ==
    IF predicted_class = "no_damage" THEN
        IF confidence > 850 THEN
            << Line("EXCELLENT CONDITION"),
               LineF("probability of no damage %", Format1f(no_damage_prob)),
               Line("recommendation: fully fit for operation and sale") >>
        ELSE IF confidence > 700 THEN
            << Line("GOOD CONDITION: high probability of no damage"),
               LineF("main probability % indicates no damage", Format1f(no_damage_prob)),
               LineF("small risk of minor defects %", Format1f(minor_damage_prob)),
               Line("recommendation: fit for operation, detailed inspection advised") >>
        ELSE
            << Line("NEEDS ATTENTION: condition ambiguous"),
               LineF("probability of no damage %", Format1f(no_damage_prob)),
               LineF("probability of minor damage %", Format1f(minor_damage_prob)),
               Line("recommendation: professional expertise MANDATORY") >>
    ELSE IF predicted_class = "minor_damage" THEN
        IF confidence > 800 THEN
            << Line("MINOR DAMAGE: small body defects found"),
               LineF("diagnosis confidence %", Format1f(confidence * 100)),
               Line("nature: surface scratches, small dents, paint wear"),
               Line("safety impact: NOT CRITICAL"),
               Line("value impact: 5-15% lower") >>
        ELSE IF confidence > 600 THEN
            << Line("PROBABLE MINOR DAMAGE"),
               LineF("probability of minor damage %", Format1f(minor_damage_prob)),
               LineF("alternative - no damage %", Format1f(no_damage_prob)),
               Line("recommendation: detailed inspection needed") >>
        ELSE
            << Line("UNDETERMINED CONDITION: more diagnostics needed"),
               Line("signs of possible damage found"),
               Line("recommendation: expert assessment MANDATORY") >>
    ELSE
        IF confidence > 900 THEN
            << Line("CRITICAL DAMAGE: car seriously damaged"),
               Line("WARNING: car NOT FIT for operation"),
               Line("nature: major body deformation, structural destruction"),
               LineF("probability of critical damage %", Format1f(major_damage_prob)) >>
        ELSE IF confidence > 800 THEN
            << Line("SERIOUS DAMAGE: significant body defects found"),
               LineF("diagnosis confidence %", Format1f(confidence * 100)),
               Line("nature: deep dents, panel damage, deformation"),
               Line("safety impact: MAY AFFECT driving safety"),
               Line("value impact: 30-70% lower") >>
        ELSE IF confidence > 600 THEN
            << Line("SUSPECTED SERIOUS DAMAGE"),
               LineF("probability of serious damage %", Format1f(major_damage_prob)),
               Line("recommendation: URGENT professional expertise") >>
        ELSE
            << Line("POTENTIALLY DANGEROUS CONDITION"),
               Line("recommendation: see a body repair specialist IMMEDIATELY") >>

\* Lines 317-322: the taxi-fitness section, the rationale lines in order.
taxi_fitness_block(repairability_msgs) ==
    Box("TAXI SERVICE FITNESS ANALYSIS") \o repairability_msgs

\* Lines 325-363: the cleanliness section, selected by the label.
\* Mutant: the second test by containment, as analyze_car_image.py:185 does.
cleanliness_block_contains(dirt_status, dirt_score) ==
    Box("CLEANLINESS AND CARE ANALYSIS") \o
    (IF dirt_status = VERY_DIRTY THEN
        << Line("CRITICAL DIRT:"),
           Line("car in an extremely neglected state"),
           Line("thick dirt prevents accurate damage diagnosis"),
           Line("serious defects may be hidden under dirt"),
           Line("URGENT professional wash and detailing mandatory"),
           Line("after cleaning - REPEATED diagnosis needed") >>
     ELSE IF (\E i \in 1..Len(dirt_status) : dirt_status[i] = "gryaznaya") THEN
        << Line("SIGNIFICANT DIRT:"),
           Line("car needs thorough cleaning"),
           LineF("dirt index %/10 (needs attention)", Format1f(dirt_score)),
           Line("accuracy of visual damage assessment reduced"),
           Line("full wash recommended before detailed inspection"),
           Line("hidden small defects possible under dirt") >>
     ELSE IF dirt_status = SLIGHTLY_DIRTY THEN
        << Line("MODERATE DIRT:"),
           Line("car in acceptable cleanliness"),
           LineF("dirt index %/10 (normal)", Format1f(dirt_score)),
           Line("light dust does not hinder diagnosis"),
           Line("ordinary wash recommended"),
           Line("damage assessment accuracy not reduced") >>
     ELSE IF dirt_status = FAIRLY_CLEAN THEN
        << Line("GOOD CLEANLINESS:"),
           Line("car kept in good condition"),
           LineF("dirt index %/10 (excellent)", Format1f(dirt_score)),
           Line("excellent visibility of all body elements"),
           Line("high accuracy of damage diagnosis"),
           Line("sign of a responsible owner") >>
     ELSE
        << Line("IDEAL CLEANLINESS:"),
           Line("car in superb care condition"),
           LineF("dirt index %/10 (benchmark)", Format1f(dirt_score)),
           Line("ideal visibility for accurate diagnosis"),
           Line("shows excellent maintenance"),
           Line("maximum paint preservation") >>)

cleanliness_block(dirt_status, dirt_score) ==
    Box("CLEANLINESS AND CARE ANALYSIS") \o
    (IF dirt_status = VERY_DIRTY THEN
        << Line("CRITICAL DIRT:"),
           Line("car in an extremely neglected state"),
           Line("thick dirt prevents accurate damage diagnosis"),
           Line("serious defects may be hidden under dirt"),
           Line("URGENT professional wash and detailing mandatory"),
           Line("after cleaning - REPEATED diagnosis needed") >>
     ELSE IF dirt_status = DIRTY THEN
        << Line("SIGNIFICANT DIRT:"),
           Line("car needs thorough cleaning"),
           LineF("dirt index %/10 (needs attention)", Format1f(dirt_score)),
           Line("accuracy of visual damage assessment reduced"),
           Line("full wash recommended before detailed inspection"),
           Line("hidden small defects possible under dirt") >>
     ELSE IF dirt_status = SLIGHTLY_DIRTY THEN
        << Line("MODERATE DIRT:"),
           Line("car in acceptable cleanliness"),
           LineF("dirt index %/10 (normal)", Format1f(dirt_score)),
           Line("light dust does not hinder diagnosis"),
           Line("ordinary wash recommended"),
           Line("damage assessment accuracy not reduced") >>
     ELSE IF dirt_status = FAIRLY_CLEAN THEN
        << Line("GOOD CLEANLINESS:"),
           Line("car kept in good condition"),
           LineF("dirt index %/10 (excellent)", Format1f(dirt_score)),
           Line("excellent visibility of all body elements"),
           Line("high accuracy of damage diagnosis"),
           Line("sign of a responsible owner") >>
     ELSE
        << Line("IDEAL CLEANLINESS:"),
           Line("car in superb care condition"),
           LineF("dirt index %/10 (benchmark)", Format1f(dirt_score)),
           Line("ideal visibility for accurate diagnosis"),
           Line("shows excellent maintenance"),
           Line("maximum paint preservation") >>)

\* Lines 366-373: the technical parameters.
technical_block(dirt_metrics) ==
    Box("TECHNICAL DIAGNOSTIC PARAMETERS") \o
    << LineF("color diversity % (norm: >120)", Format1f(dirt_metrics.color_diversity)),
       LineF("image contrast % (norm: >40)", Format1f(dirt_metrics.contrast)),
       LineF("color saturation % (norm: >100)", Format1f(dirt_metrics.saturation)),
       LineF("edge sharpness % (norm: >25)", Format1f(dirt_metrics.edge_intensity)),
       LineF("overall brightness % (norm: >110)", Format1f(dirt_metrics.brightness)) >>

\* Lines 376-436: the conclusion, selected by status and economic tag.
conclusion_block(repairability_status, economic_status) ==
    Box("CONCLUSION FOR TAXI SERVICE") \o
    (IF repairability_status = "taxi_ready" THEN
        IF economic_status = "premium_ready" THEN
            << Line("RECOMMENDED FOR PREMIUM SEGMENT:"),
               Line("EXCELLENT condition - ideal for VIP clients"),
               Line("service class: Premium/Business"),
               Line("tariffs: raised tariffs possible"),
               Line("rating: guaranteed high ratings (4.8-5.0)"),
               Line("STATUS: the fleet's quality benchmark") >>
        ELSE
            << Line("ADMITTED TO TAXI WORK:"),
               Line("fully fit for commercial transport"),
               Line("minimal repair: 1-3 days of downtime"),
               Line("cost: 10-50 thousand rub. for cosmetics"),
               Line("class: Standard/Comfort"),
               Line("ready to work after minor servicing") >>
     ELSE IF repairability_status = "conditional_taxi" THEN
        IF economic_status = "image_improvement" THEN
            << Line("ADMITTED WITH REPAIR RECOMMENDATION:"),
               Line("safety: NOT impaired, may be operated"),
               Line("IMAGE: cosmetic defects affect appeal"),
               Line("planned cost: 30-100 thousand rub."),
               Line("RISK: rating drop because of appearance"),
               Line("PLAN: cosmetic repair within a month") >>
        ELSE IF economic_status = "cosmetic_repair" THEN
            << Line("CONDITIONALLY ADMITTED TO WORK:"),
               Line("may be used with cosmetic defects"),
               Line("recommendation: remove visible damage"),
               Line("cost: 50-150 thousand rub. for appearance"),
               Line("GOAL: keep a high service standard") >>
        ELSE
            << Line("RESTRICTED ADMISSION TO WORK:"),
               Line("BAN: VIP clients and intercity trips"),
               Line("RESTRICTIONS: city trips only"),
               Line("CONTROL: weekly technical inspections"),
               Line("INSURANCE: raised OSAGO tariffs"),
               Line("TERM: until major repair (max. a month)") >>
     ELSE IF repairability_status = "repair_required" THEN
        << Line("TEMPORARILY EXCLUDED - NEEDS REPAIR:"),
           Line("STATUS: FORBIDDEN for commercial transport"),
           Line("REASON: threat to passenger safety"),
           Line("REQUIREMENTS: mandatory major repair"),
           Line("cost: 150-500 thousand rub."),
           Line("PROCEDURE: repair - inspection - certification"),
           Line("DOWNTIME: 2-4 weeks without income"),
           Line("DECISION: consider selling instead of repair") >>
     ELSE
        << Line("EXCLUDED FROM THE FLEET FOREVER:"),
           Line("DANGER: critical safety threat"),
           Line("LAW: violates requirements for commercial vehicles"),
           Line("REPUTATION: serious damage to the company's image"),
           Line("INSURANCE: full loss of coverage"),
           Line("ONLY DECISION: scrap or sell for parts"),
           Line("REPAIR USELESS: safety cannot be restored") >>)

\* Lines 438-451: the cleanliness advisory for taxi use.
\* Mutant: closed lower bounds, as the dirt labels have.
cleanliness_advisory_block_ge(dirt_score) ==
    IF dirt_score >= 6000 THEN
        << Line("TAXI CLEANLINESS REQUIREMENTS:"),
           Line("CRITICAL: car too dirty to carry passengers"),
           Line("IMAGE: violates taxi service standards"),
           Line("ACTIONS: IMMEDIATE professional wash + dry cleaning"),
           Line("cost: 3-8 thousand rub. for detailing"),
           Line("TERM: at most 1 day before going on the line") >>
    ELSE IF dirt_score >= 4000 THEN
        << Line("CLEANLINESS RECOMMENDATIONS:"),
           Line("cleanliness below taxi service standards"),
           Line("ACTION: full wash before going on the line"),
           Line("cost: 1.5-3 thousand rub. for a wash"),
           Line("GOAL: match the image of a quality service") >>
    ELSE << >>

cleanliness_advisory_block(dirt_score) ==
    IF dirt_score > 6000 THEN
        << Line("TAXI CLEANLINESS REQUIREMENTS:"),
           Line("CRITICAL: car too dirty to carry passengers"),
           Line("IMAGE: violates taxi service standards"),
           Line("ACTIONS: IMMEDIATE professional wash + dry cleaning"),
           Line("cost: 3-8 thousand rub. for detailing"),
           Line("TERM: at most 1 day before going on the line") >>
    ELSE IF dirt_score > 4000 THEN
        << Line("CLEANLINESS RECOMMENDATIONS:"),
           Line("cleanliness below taxi service standards"),
           Line("ACTION: full wash before going on the line"),
           Line("cost: 1.5-3 thousand rub. for a wash"),
           Line("GOAL: match the image of a quality service") >>
    ELSE << >>

\* Lines 454-461.
legal_block ==
    << Line("LEGAL INFORMATION FOR COMMERCIAL TRANSPORT:"),
       Line("conclusion based on passenger transport safety requirements"),
       Line("the AI system analyses conformity with taxi service standards"),
       Line("model accuracy: F1-score 94.4% (>5000 car images)"),
       Line("official admission requires a GIBDD inspection"),
       Line("responsibility for passenger safety lies with the fleet"),
       Line("======") >>

\* The sections of the list  assessment  in the order they are appended, for
\* the verdict r that line 259 obtained.
assessment_sections(r, predicted_class, confidence, probabilities, dirt_status, dirt_score, dirt_metrics) ==
    LET no_damage_prob == probabilities[1] * 100
        minor_damage_prob == probabilities[2] * 100
        major_damage_prob == probabilities[3] * 100
    IN  [header |-> header_block,
         damage |-> damage_block(predicted_class, confidence, no_damage_prob,
                                 minor_damage_prob, major_damage_prob),
         taxi_fitness |-> taxi_fitness_block(r[2]),
         cleanliness |-> cleanliness_block(dirt_status, dirt_score),
         technical |-> technical_block(dirt_metrics),
         conclusion |-> conclusion_block(r[1], r[3]),
         cleanliness_advisory |-> cleanliness_advisory_block(dirt_score),
         legal |-> legal_block]

\* Lines 254-261: the verdict the assessment is built from.
\* Mutant: a very dirty car is sent to repair.
assessment_verdict_dirt(predicted_class, confidence, probabilities, dirt_score) ==
    LET major_damage_prob == probabilities[3] * 100
    IN  IF dirt_score > 6000
        THEN <<"repair_required", msgs_repair_required(major_damage_prob),
               "mandatory_repair">>
        ELSE determine_repairability(predicted_class, confidence, major_damage_prob)

\* dirt_score is not an argument of the call at line 259; it is a parameter
\* here only so that the operator sees everything the function has in scope.
assessment_verdict(predicted_class, confidence, probabilities, dirt_score) ==
    LET major_damage_prob == probabilities[3] * 100
    IN  determine_repairability(predicted_class, confidence, major_damage_prob)

\* The locals (repairability_status, repairability_msgs, economic_status) and
\* the sections of the returned list.
assessment_of(predicted_class, confidence, probabilities, names, dirt_status, dirt_score, dirt_metrics) ==
    LET r == assessment_verdict(predicted_class, confidence, probabilities, dirt_score)
    IN  [verdict |-> r,
         sections |-> assessment_sections(r, predicted_class, confidence, probabilities,
                                          dirt_status, dirt_score, dirt_metrics)]

\* The returned list  assessment.
generate_expert_assessment(predicted_class, confidence, probabilities, names, dirt_status, dirt_score, dirt_metrics) ==
    LET a == assessment_of(predicted_class, confidence, probabilities, names,
                           dirt_status, dirt_score, dirt_metrics).sections
    IN  a.header \o a.damage \o a.taxi_fitness \o a.cleanliness \o a.technical
        \o a.conclusion \o a.cleanliness_advisory \o a.legal

(***************************************************************************)
(* Inputs of generate_expert_assessment                                    *)
(***************************************************************************)
\* The confidences at and just above the thresholds 0.6, 0.7, 0.8, 0.85 and
\* 0.9 of the function and of determine_repairability, the ends of (0, 1],
\* and two values outside it.
AssessmentConfidences ==
    {1, 600, 601, 700, 701, 800, 801, 850, 851, 900, 901, 1000} \cup {0, 1001}

\* probabilities[2], on both sides of 0.25, 0.5, 0.6 and 0.75.
MajorProbabilities == {0, 250, 251, 500, 501, 599, 600, 750, 751, 1000}

\* Triples summing to 1, and one that does not.
ProbabilityVectors ==
    {<<(1000 - p) - ((1000 - p) \div 4), (1000 - p) \div 4, p>> : p \in MajorProbabilities}
    \cup {<<500, 500, 500>>}

\* Scores on both sides of the advisory thresholds 4.0 and 6.0.
DirtScoreInputs == {0, 4000, 4500, 6000, 6500, 10000}

DirtLabels == {VERY_DIRTY, DIRTY, SLIGHTLY_DIRTY, FAIRLY_CLEAN, VERY_CLEAN}

CleanMetrics ==
    [color_diversity |-> 200000, contrast |-> 60000, saturation |-> 120000,
     brown_ratio |-> 10, edge_intensity |-> 30000, brightness |-> 130000]

DirtyMetrics ==
    [color_diversity |-> 70000, contrast |-> 20000, saturation |-> 50000,
     brown_ratio |-> 200, edge_intensity |-> 10000, brightness |-> 80000]

\* Every label with every score (the function takes them separately); the
\* metrics are the dirty ones from 4.5 up.
DirtInputs ==
    {[dirt_status |-> l, dirt_score |-> x,
      dirt_metrics |-> IF x > 4000 THEN DirtyMetrics ELSE CleanMetrics] :
        l \in DirtLabels, x \in DirtScoreInputs}

assessment_call(predicted_class, confidence, probabilities, d) ==
    [fn |-> "generate_expert_assessment",
     predicted_class |-> predicted_class,
     confidence |-> confidence,
     probabilities |-> probabilities,
     dirt |-> d,
     raised |-> FALSE,
     locals |-> assessment_verdict(predicted_class, confidence, probabilities,
                                   d.dirt_score),
     ret |-> generate_expert_assessment(predicted_class, confidence, probabilities,
                                        class_names, d.dirt_status, d.dirt_score,
                                        d.dirt_metrics)]

\* A caller invokes generate_expert_assessment.
Call_generate_expert_assessment ==
    /\ call.fn = "idle"
    /\ \E predicted_class \in ValidClasses \cup InvalidClasses,
          confidence \in AssessmentConfidences,
          probabilities \in ProbabilityVectors,
          d \in DirtInputs :
         call' = assessment_call(predicted_class, confidence, probabilities, d)
    /\ prev' = NoCall
    /\ UNCHANGED reqs

\* A second run on the same prediction with another dirt assessment; the
\* first run is kept in  prev.
Rerun_generate_expert_assessment ==
    /\ call.fn = "generate_expert_assessment"
    /\ prev = NoCall
    /\ \E d \in DirtInputs \ {call.dirt} :
         call' = assessment_call(call.predicted_class, call.confidence,
                                 call.probabilities, d)
    /\ prev' = call
    /\ UNCHANGED reqs

NextAssessment == Call_generate_expert_assessment \/ Return

SpecAssessment == Init /\ [][NextAssessment]_vars

NextRerun ==
    \/ Call_generate_expert_assessment
    \/ Rerun_generate_expert_assessment
    \/ Return

SpecRerun == Init /\ [][NextRerun]_vars

(***************************************************************************)
(* analyze_image_expert (expert_analyzer.py:514-590)                       *)
(***************************************************************************)
\* The files of the data folder a run may be asked for.
ImageFiles ==
    {"missing.jpg", "corrupt.jpg", "clean.jpg", "faded.jpg", "dusty.jpg",
     "muddy.jpg", "dented.jpg", "wreck.jpg"}

\* Line 526: os.path.exists(image_path).
FileExists(image_filename) == image_filename # "missing.jpg"

\* Line 494: Image.open(image_path).convert('RGB') succeeds.
FileReadable(image_filename) == image_filename \notin {"missing.jpg", "corrupt.jpg"}

\* The statistics of the pixels of a readable file, with scores 0, 1.0, 2.0,
\* 4.5, 6.0 and 10.
PixelsOf(image_filename) ==
    CASE image_filename = "clean.jpg" -> CleanMetrics
      [] image_filename = "faded.jpg" ->
            [color_diversity |-> 100000, contrast |-> 50000, saturation |-> 120000,
             brown_ratio |-> 50, edge_intensity |-> 30000, brightness |-> 120000]
      [] image_filename = "dented.jpg" ->
            [color_diversity |-> 70000, contrast |-> 20000, saturation |-> 50000,
             brown_ratio |-> 50, edge_intensity |-> 20000, brightness |-> 120000]
      [] image_filename = "dusty.jpg" ->
            [color_diversity |-> 100000, contrast |-> 50000, saturation |-> 80000,
             brown_ratio |-> 50, edge_intensity |-> 30000, brightness |-> 100000]
      [] image_filename = "muddy.jpg" ->
            [color_diversity |-> 70000, contrast |-> 30000, saturation |-> 80000,
             brown_ratio |-> 100, edge_intensity |-> 30000, brightness |-> 120000]
      [] OTHER -> DirtyMetrics

\* Line 505: the softmax output of the network on the file's tensor; the
\* network is in eval mode, so it is a function of the weights it was loaded
\* with and of the tensor.
SoftmaxOf(model, image_filename) ==
    IF model = "no_f1.pth" THEN
        \* the checkpoint of the first epoch: flatter outputs
        CASE image_filename = "clean.jpg" -> <<500, 300, 200>>
          [] image_filename = "faded.jpg" -> <<400, 350, 250>>
          [] image_filename = "dented.jpg" -> <<300, 400, 300>>
          [] image_filename = "dusty.jpg" -> <<400, 400, 200>>
          [] image_filename = "muddy.jpg" -> <<200, 300, 500>>
          [] OTHER -> <<200, 200, 600>>
    ELSE IF model = "old_format.pth" THEN
        CASE image_filename = "clean.jpg" -> <<800, 150, 50>>
          [] image_filename = "faded.jpg" -> <<300, 500, 200>>
          [] image_filename = "dented.jpg" -> <<200, 200, 600>>
          [] image_filename = "dusty.jpg" -> <<250, 650, 100>>
          [] image_filename = "muddy.jpg" -> <<100, 200, 700>>
          [] OTHER -> <<20, 80, 900>>
    ELSE
        CASE image_filename = "clean.jpg" -> <<900, 80, 20>>
          [] image_filename = "faded.jpg" -> <<300, 500, 200>>
          [] image_filename = "dented.jpg" -> <<250, 250, 500>>
          [] image_filename = "dusty.jpg" -> <<200, 700, 100>>
          [] image_filename = "muddy.jpg" -> <<100, 200, 700>>
          [] OTHER -> <<50, 100, 850>>

\* Line 506: torch.max over the classes, the first index of the maximum.
ArgMax(probabilities) ==
    CHOOSE i \in 1..Len(probabilities) :
        /\ \A j \in 1..Len(probabilities) : probabilities[j] <= probabilities[i]
        /\ \A j \in 1..(i - 1) : probabilities[j] < probabilities[i]

\* Lines 498-512: (predicted_class, confidence_score, probs, class_names).
predict_damage(probabilities) ==
    LET predicted == ArgMax(probabilities)
    IN  <<class_names[predicted], probabilities[predicted], probabilities, class_names>>

\* Lines 526-555: the steps of the function in the order of its statements.
StepOrderSwapped ==
    << "exists_check", "load_model", "preprocess_image", "predict_damage",
       "analyze_dirt_level", "generate_expert_assessment", "print" >>

StepOrder ==
    << "exists_check", "load_model", "preprocess_image", "analyze_dirt_level",
       "predict_damage", "generate_expert_assessment", "print" >>

\* The statement that follows a step that completed; the function returns
\* after the last.
next_step(step) ==
    LET i == CHOOSE k \in 1..Len(StepOrder) : StepOrder[k] = step
    IN  IF i < Len(StepOrder) THEN StepOrder[i + 1] ELSE "returned"

\* Line 539: the image analyze_dirt_level is given, the local original_image
\* of the run itself.
\* Mutant: a module-level variable that another run may have overwritten.
image_analysed_shared(rs, r) ==
    IF \E q \in DOMAIN rs : q # r /\ "preprocess_image" \in rs[q].done
    THEN rs[CHOOSE q \in DOMAIN rs : q # r /\ "preprocess_image" \in rs[q].done].original_image
    ELSE rs[r].original_image

image_analysed(rs, r) == rs[r].original_image

\* Lines 521-524.
banner_lines(image_filename) ==
    << Line("AI DIAGNOSTIC SYSTEM FOR TAXI SERVICE"),
       Line("professional fitness assessment for commercial transport"),
       Line("======"),
       LineF("analysed file: %", image_filename) >>

\* Lines 587-590: the handler of  except Exception.
except_block(error) == << Line("analysis error"), Line("traceback") >>

\* Lines 561-563: the brief technical data.
brief_lines(predicted_class, confidence, dirt_emoji, dirt_status, dirt_score) ==
    Box("BRIEF TECHNICAL DATA") \o
    << LineF("predicted class: %", predicted_class),
       LineF("model confidence: %", Format1f(confidence * 100)),
       LineF2("cleanliness: % (index: %)", dirt_status, Format1f(dirt_score)) >>

\* Lines 568-582: one bar per class, f"{prob:.1%}" and int(prob * 30) blocks.
probability_lines(names, probabilities) ==
    Box("PROBABILITY DISTRIBUTION") \o
    [i \in 1..Len(names) |->
        LineF2(IF names[i] = "no_damage" THEN "no damage: % |%|"
               ELSE IF names[i] = "minor_damage" THEN "minor damage: % |%|"
               ELSE "serious damage: % |%|",
               Format1f(probabilities[i] * 100), (probabilities[i] * 30) \div 1000)]

\* Lines 551-585: everything printed once the assessment is built.
report_output(q) ==
    << Line("======"), Line("EXPERT CONCLUSION"), Line("======") >>
    \o q.expert_report
    \o brief_lines(q.prediction[1], q.prediction[2], q.dirt[2], q.dirt[1], q.dirt[3])
    \o probability_lines(q.prediction[4], q.prediction[3])
    \o << Line("======"), Line("analysis completed successfully") >>

\* A step of run r is entered: it is recorded and its announcement printed.
Entered(q, step, announcement) ==
    [q EXCEPT !.steps = Append(@, step), !.console = @ \o announcement]

\* A step of a run completed, binding nothing more than what q holds.
Completed(q, step, output) ==
    [q EXCEPT !.done = @ \cup {step}, !.console = @ \o output, !.pc = next_step(step)]

\* A step of a run raised an exception inside the try of line 530.
Failed(q, error) == [q EXCEPT !.error = error, !.pc = "except"]

\* str.strip() on a line held as its words and the blanks around them.
RECURSIVE lstrip(_)
lstrip(line) == IF line # << >> /\ Head(line) = " " THEN lstrip(Tail(line)) ELSE line

RECURSIVE rstrip(_)
rstrip(line) ==
    IF line # << >> /\ line[Len(line)] = " " THEN rstrip(SubSeq(line, 1, Len(line) - 1))
    ELSE line

strip(line) == rstrip(lstrip(line))

\* The lines a user may type at the prompt of line 596.
InputLines ==
    {<< >>, << " " >>, << " ", "dusty.jpg", " " >>} \cup {<< f >> : f \in ImageFiles}

\* analyze_image_expert is entered with image_filename: lines 514-524.
entered_with(q, image_filename) ==
    [q EXCEPT !.pc = "exists_check",
              !.image_filename = image_filename,
              !.console = @ \o banner_lines(image_filename)]

\* Lines 593-594 and 602: main takes the file name from sys.argv[1] and
\* calls analyze_image_expert.
Start(r) ==
    /\ reqs[r].pc = "idle"
    /\ \E image_filename \in ImageFiles :
         reqs' = [reqs EXCEPT ![r] = entered_with(IdleRequest, image_filename)]
    /\ UNCHANGED <<call, prev>>

\* Lines 595-596: without an argument main calls input(), which writes the
\* prompt and waits for a line.
MainPrompt(r) ==
    /\ reqs[r].pc = "idle"
    /\ reqs' = [reqs EXCEPT ![r] =
                [IdleRequest EXCEPT !.pc = "input",
                                    !.console = << Line("enter the image file name: ") >>]]
    /\ UNCHANGED <<call, prev>>

\* Lines 596-602: a line arrives; it is stripped, an empty name is reported
\* and main returns, any other name goes to analyze_image_expert.
MainInput(r) ==
    /\ reqs[r].pc = "input"
    /\ \E line \in InputLines :
         LET image_filename == strip(line)
         IN  reqs' = [reqs EXCEPT ![r] =
                IF image_filename = << >>
                THEN [@ EXCEPT !.console = Append(@, Line("file name not given")),
                               !.pc = "returned"]
                ELSE entered_with(@, image_filename[1])]
    /\ UNCHANGED <<call, prev>>

\* Line 596: the input stream is at its end; input() raises EOFError, which
\* main does not catch.
MainInputEOF(r) ==
    /\ reqs[r].pc = "input"
    /\ reqs' = [reqs EXCEPT ![r].error = "EOFError", ![r].raised = TRUE,
                            ![r].pc = "returned"]
    /\ UNCHANGED <<call, prev>>

\* Lines 526-528.
ExistsCheck(r) ==
    /\ reqs[r].pc = "exists_check"
    /\ LET q == Entered(reqs[r], "exists_check", << >>)
       IN  reqs' = [reqs EXCEPT ![r] =
                IF FileExists(q.image_filename)
                THEN Completed(q, "exists_check", << >>)
                ELSE [q EXCEPT !.done = @ \cup {"exists_check"},
                               !.console = Append(@, Line("image not found")),
                               !.pc = "returned"]]
    /\ UNCHANGED <<call, prev>>

\* What torch.load (line 470) finds at model_path.
CheckpointFiles ==
    {"missing.pth", "finetuned.pth", "no_f1.pth", "old_format.pth", "mismatched.pth",
     "bad_f1.pth"}

\* The file as torch.load returns it: whether it can be read, the keys the
\* dictionary holds, whether the state dict fits MulticlassDamageModel, and
\* the values of 'epoch' and 'f1_score' (f1_score in 100000ths), and whether
\* f1_score is a number, which ':.4f' can format.
CheckpointOf(model_file) ==
    CASE model_file = "finetuned.pth" ->
           [readable |-> TRUE, keys |-> {"model_state_dict", "epoch", "f1_score"},
            fits |-> TRUE, epoch |-> 12, f1_score |-> 91234, f1_is_number |-> TRUE]
      [] model_file = "no_f1.pth" ->
           [readable |-> TRUE, keys |-> {"model_state_dict", "epoch"},
            fits |-> TRUE, epoch |-> 1, f1_score |-> 0, f1_is_number |-> TRUE]
      [] model_file = "old_format.pth" ->
           [readable |-> TRUE, keys |-> {"conv1.weight", "fc.weight"},
            fits |-> TRUE, epoch |-> 0, f1_score |-> 0, f1_is_number |-> TRUE]
      [] model_file = "mismatched.pth" ->
           [readable |-> TRUE, keys |-> {"model_state_dict", "epoch", "f1_score"},
            fits |-> FALSE, epoch |-> 3, f1_score |-> 50000, f1_is_number |-> TRUE]
      [] model_file = "bad_f1.pth" ->
           [readable |-> TRUE, keys |-> {"model_state_dict", "f1_score"},
            fits |-> TRUE, epoch |-> 0, f1_score |-> 0, f1_is_number |-> FALSE]
      [] OTHER ->
           [readable |-> FALSE, keys |-> {}, fits |-> FALSE, epoch |-> 0, f1_score |-> 0, f1_is_number |-> TRUE]

\* Lines 465-483: what load_model prints, and the exception that ends it
\* ("none" when it returns).  device_ok is whether model.to(device) of line
\* 481 succeeds.
load_model(model_file, device_ok) ==
    LET checkpoint == CheckpointOf(model_file)
        device_line == << Line("device used") >>
        epoch_line ==
            IF "epoch" \in checkpoint.keys
            THEN << LineF("model loaded, epoch: %", checkpoint.epoch) >>
            ELSE << Line("model loaded, epoch: unknown") >>
        loaded_lines ==
            IF "model_state_dict" \in checkpoint.keys THEN
                device_line \o epoch_line \o
                (IF "f1_score" \in checkpoint.keys
                 THEN << LineF("F1-score of the model: %", Format4f(checkpoint.f1_score)) >>
                 ELSE << >>)
            ELSE device_line \o << Line("model loaded (old format)") >>
    IN  IF ~checkpoint.readable THEN
            [printed |-> device_line, error |-> "checkpoint_unreadable"]
        ELSE IF ~checkpoint.fits THEN
            [printed |-> device_line, error |-> "state_dict_mismatch"]
        ELSE IF /\ "model_state_dict" \in checkpoint.keys
                /\ "f1_score" \in checkpoint.keys
                /\ ~checkpoint.f1_is_number THEN
            [printed |-> device_line \o epoch_line, error |-> "f1_score_unformattable"]
        ELSE IF ~device_ok THEN
            [printed |-> loaded_lines, error |-> "device_error"]
        ELSE
            [printed |-> loaded_lines, error |-> "none"]

\* Lines 531-532: the call of load_model inside the try.
LoadModel(r) ==
    /\ reqs[r].pc = "load_model"
    /\ LET q == Entered(reqs[r], "load_model", << Line("initialising the AI model") >>)
       IN  \E model_file \in CheckpointFiles, device_ok \in BOOLEAN :
             LET loaded == load_model(model_file, device_ok)
             IN  reqs' = [reqs EXCEPT ![r] =
                    IF loaded.error = "none"
                    THEN Completed([q EXCEPT !.model = model_file], "load_model",
                                   loaded.printed)
                    ELSE Failed([q EXCEPT !.console = @ \o loaded.printed], loaded.error)]
    /\ UNCHANGED <<call, prev>>

\* Lines 534-536; Image.open raises on a file that is not an image.
PreprocessImage(r) ==
    /\ reqs[r].pc = "preprocess_image"
    /\ LET q == Entered(reqs[r], "preprocess_image", << Line("preprocessing the image") >>)
       IN  reqs' = [reqs EXCEPT ![r] =
                IF FileReadable(q.image_filename)
                THEN Completed([q EXCEPT !.original_image = PixelsOf(q.image_filename)],
                               "preprocess_image", << Line("resolution") >>)
                ELSE Failed(q, "unreadable_image")]
    /\ UNCHANGED <<call, prev>>

\* Lines 538-539.
AnalyzeDirtLevel(r) ==
    /\ reqs[r].pc = "analyze_dirt_level"
    /\ LET q == Entered(reqs[r], "analyze_dirt_level", << Line("dirt analysis") >>)
       IN  reqs' = [reqs EXCEPT ![r] =
                Completed([q EXCEPT !.dirt = analyze_dirt_level(image_analysed(reqs, r))],
                          "analyze_dirt_level", << >>)]
    /\ UNCHANGED <<call, prev>>

\* Lines 541-542; the forward pass may raise (device or shape errors).
PredictDamage(r) ==
    /\ reqs[r].pc = "predict_damage"
    /\ LET q == Entered(reqs[r], "predict_damage", << Line("AI damage analysis") >>)
       IN  \E inferred \in BOOLEAN :
             reqs' = [reqs EXCEPT ![r] =
                IF inferred
                THEN Completed([q EXCEPT !.prediction = predict_damage(SoftmaxOf(q.model, q.image_filename))],
                               "predict_damage", << >>)
                ELSE Failed(q, "inference_error")]
    /\ UNCHANGED <<call, prev>>

\* Lines 545-548.
GenerateExpertAssessment(r) ==
    /\ reqs[r].pc = "generate_expert_assessment"
    /\ LET q == Entered(reqs[r], "generate_expert_assessment", << >>)
           report == generate_expert_assessment(q.prediction[1], q.prediction[2],
                                                q.prediction[3], q.prediction[4],
                                                q.dirt[1], q.dirt[3], q.dirt[4])
       IN  reqs' = [reqs EXCEPT ![r] =
                Completed([q EXCEPT !.expert_report = report],
                          "generate_expert_assessment", << >>)]
    /\ UNCHANGED <<call, prev>>

\* Lines 551-585.
PrintReport(r) ==
    /\ reqs[r].pc = "print"
    /\ LET q == Entered(reqs[r], "print", << >>)
       IN  reqs' = [reqs EXCEPT ![r] = Completed(q, "print", report_output(q))]
    /\ UNCHANGED <<call, prev>>

\* Lines 587-590: the exception is printed, not raised again; the function
\* then ends and returns None.
HandleException(r) ==
    /\ reqs[r].pc = "except"
    /\ reqs' = [reqs EXCEPT ![r].console = @ \o except_block(reqs[r].error),
                            ![r].pc = "returned"]
    /\ UNCHANGED <<call, prev>>

\* The process of a run that returned ends; another run may start.
Finish(r) ==
    /\ reqs[r].pc = "returned"
    /\ reqs' = [reqs EXCEPT ![r] = IdleRequest]
    /\ UNCHANGED <<call, prev>>

NextExpert ==
    \E r \in Requests :
        \/ Start(r)
        \/ MainPrompt(r)
        \/ MainInput(r)
        \/ MainInputEOF(r)
        \/ ExistsCheck(r)
        \/ LoadModel(r)
        \/ PreprocessImage(r)
        \/ AnalyzeDirtLevel(r)
        \/ PredictDamage(r)
        \/ GenerateExpertAssessment(r)
        \/ PrintReport(r)
        \/ HandleException(r)
        \/ Finish(r)

SpecExpert == Init /\ [][NextExpert]_vars

(***************************************************************************)
(* predict_damage feeding determine_repairability                          *)
(* (expert_analyzer.py:498-512, 254-261)                                   *)
(***************************************************************************)
\* The values a component of the softmax output takes: the multiples of
\* 0.05, and the values at and next to 1/4, 1/3, 0.4, 1/2, 0.6, 3/4 and 0.8.
OracleProbabilityValues ==
    {50 * k : k \in 0..20} \cup Near(250) \cup Near(333) \cup Near(400)
    \cup Near(500) \cup Near(600) \cup Near(750) \cup Near(800)

\* Line 505: the softmax outputs, three probabilities that sum to 1.
OracleVectors ==
    {v \in {<<a, b, 1000 - (a + b)>> : a \in OracleProbabilityValues,
                                       b \in OracleProbabilityValues} : v[3] >= 0}

\* Lines 254-261 on the output of predict_damage:  major_damage_prob =
\* probabilities[2] * 100, then determine_repairability.
\* Mutant: the probability of minor damage is passed where P_major belongs.
oracle_verdict_minor(probabilities) ==
    LET o == predict_damage(probabilities)
    IN  determine_repairability(o[1], o[2], o[3][2] * 100)

oracle_verdict(probabilities) ==
    LET o == predict_damage(probabilities)
    IN  determine_repairability(o[1], o[2], o[3][3] * 100)

\* generate_expert_assessment calls determine_repairability with what
\* predict_damage returned.
Call_oracle_determine_repairability ==
    /\ call.fn = "idle"
    /\ \E probabilities \in OracleVectors :
         LET o == predict_damage(probabilities)
         IN  call' = [fn |-> "determine_repairability",
                      predicted_class |-> o[1],
                      confidence |-> o[2],
                      major_damage_prob |-> o[3][3] * 100,
                      probabilities |-> o[3],
                      raised |-> FALSE,
                      ret |-> oracle_verdict(probabilities)]
    /\ prev' = NoCall
    /\ UNCHANGED reqs

NextOracle == Call_oracle_determine_repairability \/ Return

SpecOracle == Init /\ [][NextOracle]_vars

(***************************************************************************)
(* Claims about determine_repairability, checked under SpecDecision.       *)
(***************************************************************************)
IsDecision == call.fn = "determine_repairability"

\* The domain the specification gives the decision engine.
ValidDecisionInput ==
    /\ call.predicted_class \in {"no_damage", "minor_damage", "major_damage"}
    /\ call.confidence > 0 /\ call.confidence <= 1000
    /\ call.major_damage_prob >= 0 /\ call.major_damage_prob <= 100000

Verdict == <<call.ret[1], call.ret[3]>>

Statuses == {"taxi_ready", "conditional_taxi", "repair_required", "taxi_banned"}

EconomicTags ==
    {"premium_ready", "minor_maintenance", "image_improvement", "cosmetic_repair",
     "restricted_operation", "mandatory_repair", "safety_violation"}

\* C1: determine_repairability is total on its domain: for every class in
\* {no_damage, minor_damage, major_damage}, confidence in (0,1] and P_major in
\* [0,100] it returns one (status, rationale, economic_tag) triple with the
\* status among the four statuses and the tag among the seven tags.
C1_Total ==
    (IsDecision /\ ValidDecisionInput) =>
        /\ Len(call.ret) = 3
        /\ call.ret[1] \in Statuses
        /\ call.ret[3] \in EconomicTags

\* The last branch of the major_damage cascade returns a verdict.
C1_Witness ==
    /\ IsDecision /\ ValidDecisionInput
    /\ call.predicted_class = "major_damage"
    /\ call.confidence = 500 /\ call.major_damage_prob = 0
    /\ Verdict = <<"conditional_taxi", "cosmetic_repair">>

\* C2: for major_damage the verdict is taxi_banned / safety_violation if and
\* only if confidence > 0.8 and P_major > 75.0, both strict.
C2_BanIff ==
    (IsDecision /\ call.predicted_class = "major_damage") =>
        /\ (Verdict = <<"taxi_banned", "safety_violation">>
              <=> (call.confidence > 800 /\ call.major_damage_prob > 75000))
        /\ (call.ret[1] = "taxi_banned" <=> call.ret[3] = "safety_violation")

\* The scenario (major_damage, 0.85, 80.0) is banned.
C2_Witness ==
    /\ IsDecision /\ call.predicted_class = "major_damage"
    /\ call.confidence = 850 /\ call.major_damage_prob = 80000
    /\ Verdict = <<"taxi_banned", "safety_violation">>

\* C3: for major_damage outside the ban condition, the verdict is
\* repair_required / mandatory_repair if and only if confidence > 0.6 or
\* P_major > 50.0.
C3_RepairIff ==
    (/\ IsDecision /\ call.predicted_class = "major_damage"
     /\ ~(call.confidence > 800 /\ call.major_damage_prob > 75000)) =>
        /\ (Verdict = <<"repair_required", "mandatory_repair">>
              <=> (call.confidence > 600 \/ call.major_damage_prob > 50000))
        /\ (call.ret[1] = "repair_required" <=> call.ret[3] = "mandatory_repair")

\* The scenario (major_damage, 0.65, 40.0): the confidence clause alone.
C3_Witness ==
    /\ IsDecision /\ call.predicted_class = "major_damage"
    /\ call.confidence = 650 /\ call.major_damage_prob = 40000
    /\ Verdict = <<"repair_required", "mandatory_repair">>

\* C4: for major_damage with confidence <= 0.6 and P_major <= 50.0 the status
\* is conditional_taxi, with tag restricted_operation when P_major > 25.0 and
\* cosmetic_repair when P_major <= 25.0.
C4_Conditional ==
    (/\ IsDecision /\ call.predicted_class = "major_damage"
     /\ call.confidence <= 600 /\ call.major_damage_prob <= 50000) =>
        /\ call.ret[1] = "conditional_taxi"
        /\ call.major_damage_prob > 25000 => call.ret[3] = "restricted_operation"
        /\ call.major_damage_prob <= 25000 => call.ret[3] = "cosmetic_repair"

\* P_major exactly 25.0 is cosmetic_repair.
C4_Witness ==
    /\ IsDecision /\ call.predicted_class = "major_damage"
    /\ call.confidence = 600 /\ call.major_damage_prob = 25000
    /\ Verdict = <<"conditional_taxi", "cosmetic_repair">>

\* C5: for minor_damage, with minor_severity = 100 - P_major, the verdict is
\* conditional_taxi / image_improvement if and only if confidence > 0.6 and
\* minor_severity > 40.0, and taxi_ready / minor_maintenance otherwise.
C5_Minor ==
    (IsDecision /\ call.predicted_class = "minor_damage") =>
        LET minor_severity == 100000 - call.major_damage_prob
        IN  IF call.confidence > 600 /\ minor_severity > 40000
            THEN Verdict = <<"conditional_taxi", "image_improvement">>
            ELSE Verdict = <<"taxi_ready", "minor_maintenance">>

\* The scenario (minor_damage, 0.5, 90.0): the confidence gate fails.
C5_Witness ==
    /\ IsDecision /\ call.predicted_class = "minor_damage"
    /\ call.confidence = 500 /\ call.major_damage_prob = 90000
    /\ Verdict = <<"taxi_ready", "minor_maintenance">>

\* C6: for no_damage the result is taxi_ready / premium_ready for every
\* confidence and every P_major, and nothing of the result (the rationale
\* lines included) depends on either value.
C6_NoDamage ==
    (IsDecision /\ call.predicted_class = "no_damage") =>
        /\ Verdict = <<"taxi_ready", "premium_ready">>
        /\ call.ret = <<"taxi_ready", msgs_premium_ready, "premium_ready">>
        /\ \A i \in 1..Len(call.ret[2]) : call.ret[2][i].args = <<>>

\* A no_damage prediction with the lowest confidence and the highest P_major.
C6_Witness ==
    /\ IsDecision /\ call.predicted_class = "no_damage"
    /\ call.confidence = 1 /\ call.major_damage_prob = 100000
    /\ Verdict = <<"taxi_ready", "premium_ready">>

\* C25: the statuses taxi_banned and repair_required are returned only when
\* the predicted class is major_damage; major_damage never yields taxi_ready;
\* no_damage never yields anything but taxi_ready.
C25_StatusByClass ==
    IsDecision =>
        /\ call.ret[1] \in {"taxi_banned", "repair_required"}
              => call.predicted_class = "major_damage"
        /\ call.predicted_class = "major_damage" => call.ret[1] # "taxi_ready"
        /\ call.predicted_class = "no_damage" => call.ret[1] = "taxi_ready"

\* A minor_damage prediction with the highest confidence and P_major of the
\* scenarios stays below repair_required.
C25_Witness ==
    /\ IsDecision /\ call.predicted_class = "minor_damage"
    /\ call.confidence = 950 /\ call.major_damage_prob = 90000
    /\ call.ret[1] = "taxi_ready"

\* The mildest major_damage input is still not taxi_ready.
C25_WitnessMajor ==
    /\ IsDecision /\ call.predicted_class = "major_damage"
    /\ call.confidence = 1 /\ call.major_damage_prob = 0
    /\ call.ret[1] = "conditional_taxi"

\* The (status, tag) pairs of the return statements, lines 172-235.
VerdictPairs ==
    {<<"taxi_ready", "premium_ready">>, <<"taxi_ready", "minor_maintenance">>,
     <<"conditional_taxi", "image_improvement">>, <<"conditional_taxi", "cosmetic_repair">>,
     <<"conditional_taxi", "restricted_operation">>,
     <<"repair_required", "mandatory_repair">>, <<"taxi_banned", "safety_violation">>}

\* C26: the economic tag determines the status: the only (status, tag) pairs
\* determine_repairability returns are (taxi_ready, premium_ready),
\* (taxi_ready, minor_maintenance), (conditional_taxi, image_improvement),
\* (conditional_taxi, cosmetic_repair), (conditional_taxi,
\* restricted_operation), (repair_required, mandatory_repair) and
\* (taxi_banned, safety_violation), so no tag comes with two statuses.
C26_TagDeterminesStatus ==
    IsDecision =>
        /\ Verdict \in VerdictPairs
        /\ \A v \in VerdictPairs : v[2] = call.ret[3] => v[1] = call.ret[1]

\* A confident minor_damage prediction: image_improvement with conditional_taxi.
C26_Witness ==
    /\ IsDecision /\ call.predicted_class = "minor_damage"
    /\ call.confidence = 950 /\ call.major_damage_prob = 30000
    /\ Verdict = <<"conditional_taxi", "image_improvement">>

IsAssessment == call.fn = "generate_expert_assessment"

\* The oracle contract of the specification for generate_expert_assessment.
ValidAssessmentInput ==
    /\ call.predicted_class \in {"no_damage", "minor_damage", "major_damage"}
    /\ call.confidence > 0 /\ call.confidence <= 1000
    /\ call.probabilities[1] + call.probabilities[2] + call.probabilities[3] = 1000

\* C7: invalid input (a class label outside the three classes, a confidence
\* outside (0,1], probabilities that do not sum to 1) is rejected with an
\* error before any branch is evaluated and never gets a verdict.
C7_InvalidRejected ==
    /\ (IsDecision /\ ~ValidDecisionInput) => (call.raised /\ call.ret = <<>>)
    /\ (IsAssessment /\ ~ValidAssessmentInput) => (call.raised /\ call.ret = <<>>)

(***************************************************************************)
(* Claims about generate_expert_assessment.                                *)
(***************************************************************************)
\* The index of the line with the given text in a report (every such text
\* is appended at most once); 0 when absent.
IndexOfLine(report, text) ==
    LET found == {i \in 1..Len(report) : report[i].text = text}
    IN  IF found = {} THEN 0 ELSE CHOOSE i \in found : TRUE

\* The lines between the box of one title and the box of the next.
TaxiFitnessSection(report) ==
    SubSeq(report, IndexOfLine(report, "TAXI SERVICE FITNESS ANALYSIS") + 2,
                   IndexOfLine(report, "CLEANLINESS AND CARE ANALYSIS") - 2)

\* Where the lines that follow the conclusion start: the cleanliness
\* advisory when there is one, the legal information otherwise.
AfterConclusion(report) ==
    LET a == IndexOfLine(report, "TAXI CLEANLINESS REQUIREMENTS:")
        b == IndexOfLine(report, "CLEANLINESS RECOMMENDATIONS:")
        c == IndexOfLine(report, "LEGAL INFORMATION FOR COMMERCIAL TRANSPORT:")
    IN  IF a > 0 THEN a ELSE IF b > 0 THEN b ELSE c

ConclusionSection(report) ==
    SubSeq(report, IndexOfLine(report, "CONCLUSION FOR TAXI SERVICE") + 2,
                   AfterConclusion(report) - 1)

IsRerun == IsAssessment /\ prev.fn = "generate_expert_assessment"

\* C8: two runs of generate_expert_assessment on the same predicted class,
\* confidence and probabilities that differ in dirt_status, dirt_score or
\* dirt_metrics have the same (status, economic_tag), the same taxi-fitness
\* rationale lines and the same conclusion block.
C8_DirtNeverChangesVerdict ==
    IsRerun =>
        LET rationale == TaxiFitnessSection(call.ret)
            conclusion == ConclusionSection(call.ret)
        IN  /\ call.locals = prev.locals
            /\ rationale = TaxiFitnessSection(prev.ret)
            /\ rationale = call.locals[2]
            /\ conclusion = ConclusionSection(prev.ret)
            /\ Len(conclusion) >= 5

\* A clean run then a filthy run of a no_damage prediction: the reports
\* differ, the car stays premium_ready.
C8_Witness ==
    /\ IsRerun
    /\ call.predicted_class = prev.predicted_class
    /\ call.confidence = prev.confidence
    /\ call.probabilities = prev.probabilities
    /\ prev.dirt.dirt_status = VERY_CLEAN /\ prev.dirt.dirt_score = 0
    /\ call.dirt.dirt_status = VERY_DIRTY /\ call.dirt.dirt_score = 10000
    /\ call.ret # prev.ret
    /\ call.predicted_class = "no_damage"
    /\ <<call.locals[1], call.locals[3]>> = <<"taxi_ready", "premium_ready">>

(***************************************************************************)
(* Claims about analyze_dirt_level, checked under SpecDirt.                *)
(***************************************************************************)
IsDirtExpert == call.fn = "analyze_dirt_level"

IsDirtBasic == call.fn = "aci_analyze_dirt_level"

\* The score a call reports: the third component of expert_analyzer's tuple,
\* the number printed in analyze_car_image's details string.
ReportedScore == IF IsDirtExpert THEN call.ret[3] ELSE call.ret[3].args[1] * 100

\* The five ranges of the claim, as the set of labels whose range holds s.
LabelsOfScore(s) ==
    {l \in {VERY_DIRTY, DIRTY, SLIGHTLY_DIRTY, FAIRLY_CLEAN, VERY_CLEAN} :
        \/ l = VERY_DIRTY /\ s >= 6000
        \/ l = DIRTY /\ s >= 4000 /\ s < 6000
        \/ l = SLIGHTLY_DIRTY /\ s >= 2000 /\ s < 4000
        \/ l = FAIRLY_CLEAN /\ s >= 1000 /\ s < 2000
        \/ l = VERY_CLEAN /\ s < 1000}

\* C9: the dirt label is a total function of the dirt score with closed
\* lower bounds: >= 6 very_dirty, [4,6) dirty, [2,4) slightly_dirty, [1,2)
\* fairly_clean, < 1 very_clean; every score lies in exactly one range and
\* the label returned (by either implementation) is the label of that range.
C9_LabelBuckets ==
    (IsDirtExpert \/ IsDirtBasic) =>
        /\ ReportedScore >= 0 /\ ReportedScore <= 10000
        /\ LabelsOfScore(ReportedScore) = {call.ret[1]}

\* A score of exactly 4.0 is labelled dirty by expert_analyzer.
C9_Witness ==
    /\ IsDirtExpert
    /\ call.ret[3] = 4000
    /\ call.ret[1] = DIRTY

\* The contributions as the claim states them: (< lo: a, < hi: b, else 0),
\* and for brown_ratio (> hi: a, > lo: b, else 0).
C10_Low(x, lo, a, hi, b) == IF x < lo THEN a ELSE IF x < hi THEN b ELSE 0

C10_High(x, hi, a, lo, b) == IF x > hi THEN a ELSE IF x > lo THEN b ELSE 0

C10_Sum(m) ==
    C10_Low(m.color_diversity, 80000, 2000, 120000, 1000)
    + C10_Low(m.contrast, 25000, 2000, 40000, 1000)
    + C10_Low(m.saturation, 60000, 1500, 100000, 500)
    + C10_High(m.brown_ratio, 150, 2000, 80, 1000)
    + C10_Low(m.edge_intensity, 15000, 1500, 25000, 500)
    + C10_Low(m.brightness, 90000, 1000, 110000, 500)

\* C10: the dirt score is the sum of six contributions, one per metric:
\* color_diversity (<80: 2, <120: 1), contrast (<25: 2, <40: 1), saturation
\* (<60: 1.5, <100: 0.5), brown_ratio (>0.15: 2, >0.08: 1), edge_intensity
\* (<15: 1.5, <25: 0.5), brightness (<90: 1, <110: 0.5); a value exactly on
\* a threshold takes the smaller contribution.  The metrics returned are the
\* six inputs with the score added.
C10_ScoreIsSum ==
    IsDirtExpert =>
        /\ call.ret[3] = C10_Sum(call.image)
        /\ call.ret[4].dirt_score = call.ret[3]

\* Every metric exactly on its lower threshold: 1 + 1 + 0.5 + 0 + 0.5 + 0.5.
C10_Witness ==
    /\ IsDirtExpert
    /\ call.image = [color_diversity |-> 80000, contrast |-> 25000,
                     saturation |-> 60000, brown_ratio |-> 80,
                     edge_intensity |-> 15000, brightness |-> 90000]
    /\ call.ret[3] = 3500

\* The statistics of image m are all on the clean side of both thresholds.
AllClean(m) ==
    /\ m.color_diversity >= 120000 /\ m.contrast >= 40000
    /\ m.saturation >= 100000 /\ m.brown_ratio <= 80
    /\ m.edge_intensity >= 25000 /\ m.brightness >= 110000

\* The statistics of image m are all in the dirtiest band.
AllDirtiest(m) ==
    /\ m.color_diversity < 80000 /\ m.contrast < 25000
    /\ m.saturation < 60000 /\ m.brown_ratio > 150
    /\ m.edge_intensity < 15000 /\ m.brightness < 90000

\* C11: for every combination of the six statistics the dirt score lies in
\* [0, 10]; it is 0 when every statistic is on its clean side and 10 when
\* all six are in their dirtiest band.
C11_ScoreRange ==
    IsDirtExpert =>
        /\ call.ret[3] >= 0 /\ call.ret[3] <= 10000
        /\ AllClean(call.image) => call.ret[3] = 0
        /\ AllDirtiest(call.image) => call.ret[3] = 10000

\* An image with all six statistics in the dirtiest band scores 10.
C11_Witness ==
    /\ IsDirtExpert
    /\ AllDirtiest(call.image)
    /\ call.ret[3] = 10000

\* An image with all six statistics on the clean side scores 0.
C11_WitnessClean ==
    /\ IsDirtExpert
    /\ AllClean(call.image)
    /\ call.ret[3] = 0

(***************************************************************************)
(* Claims about two calls of analyze_dirt_level, checked under SpecDirtier.*)
(***************************************************************************)
IsDirtRerun == call.fn = "analyze_dirt_level" /\ prev # NoCall

\* The names of the statistics in which images a and b differ.
DifferingMetrics(a, b) ==
    {k \in {"color_diversity", "contrast", "saturation", "brown_ratio", "edge_intensity", "brightness"} : a[k] # b[k]}

\* Image b is image a with exactly one statistic changed, towards dirty.
OneMetricDirtier(a, b) ==
    /\ Cardinality(DifferingMetrics(a, b)) = 1
    /\ b.color_diversity <= a.color_diversity /\ b.contrast <= a.contrast
    /\ b.saturation <= a.saturation /\ b.brown_ratio >= a.brown_ratio
    /\ b.edge_intensity <= a.edge_intensity /\ b.brightness <= a.brightness

\* C12: the dirt score is monotonically non-decreasing in dirtiness: with
\* the other five statistics fixed, lowering color_diversity, contrast,
\* saturation, edge_intensity or brightness, or raising brown_ratio, never
\* decreases the score.
C12_Monotone ==
    (IsDirtRerun /\ OneMetricDirtier(prev.image, call.image)) =>
        call.ret[3] >= prev.ret[3]

\* Lowering the contrast from the band [25, 40) into the band below 25, the
\* rest unchanged, raises the score by one point.
C12_Witness ==
    /\ IsDirtRerun
    /\ OneMetricDirtier(prev.image, call.image)
    /\ prev.image.contrast = 25000 /\ call.image.contrast = 24999
    /\ call.ret[3] = prev.ret[3] + 1000

(***************************************************************************)
(* Claims about one call of generate_expert_assessment, checked under      *)
(* SpecAssessment.                                                         *)
(***************************************************************************)
\* The number of lines of a report that carry the given text.
CountOfLine(report, text) ==
    Cardinality({i \in 1..Len(report) : report[i].text = text})

\* The bullet lines of the critical-cleanliness advisory (lines 441-445) and
\* of the below-standard advisory (lines 448-451), without their heading.
CriticalAdvisoryLines ==
    << "CRITICAL: car too dirty to carry passengers",
       "IMAGE: violates taxi service standards",
       "ACTIONS: IMMEDIATE professional wash + dry cleaning",
       "cost: 3-8 thousand rub. for detailing",
       "TERM: at most 1 day before going on the line" >>

BelowStandardAdvisoryLines ==
    << "cleanliness below taxi service standards",
       "ACTION: full wash before going on the line",
       "cost: 1.5-3 thousand rub. for a wash",
       "GOAL: match the image of a quality service" >>

\* The texts of the lines of a report from the line after index i up to the
\* heading of the legal information.
TextsUpToLegal(report, i) ==
    LET c == IndexOfLine(report, "LEGAL INFORMATION FOR COMMERCIAL TRANSPORT:")
    IN  [k \in 1..(c - 1 - i) |-> report[i + k].text]

\* The report holds the critical advisory: its heading once, followed by its
\* bullet lines, directly before the legal information.
HasCriticalAdvisory(report) ==
    /\ CountOfLine(report, "TAXI CLEANLINESS REQUIREMENTS:") = 1
    /\ TextsUpToLegal(report, IndexOfLine(report, "TAXI CLEANLINESS REQUIREMENTS:")) = CriticalAdvisoryLines

HasBelowStandardAdvisory(report) ==
    /\ CountOfLine(report, "CLEANLINESS RECOMMENDATIONS:") = 1
    /\ TextsUpToLegal(report, IndexOfLine(report, "CLEANLINESS RECOMMENDATIONS:")) = BelowStandardAdvisoryLines

\* No line of the critical (below-standard) advisory is in the report.
LacksCriticalAdvisory(report) ==
    /\ CountOfLine(report, "TAXI CLEANLINESS REQUIREMENTS:") = 0
    /\ \A k \in 1..Len(CriticalAdvisoryLines) : CountOfLine(report, CriticalAdvisoryLines[k]) = 0

LacksBelowStandardAdvisory(report) ==
    /\ CountOfLine(report, "CLEANLINESS RECOMMENDATIONS:") = 0
    /\ \A k \in 1..Len(BelowStandardAdvisoryLines) : CountOfLine(report, BelowStandardAdvisoryLines[k]) = 0

\* C13: generate_expert_assessment appends the critical-cleanliness advisory
\* if and only if dirt_score > 6.0, the below-standard advisory if and only
\* if 4.0 < dirt_score <= 6.0, and neither when dirt_score <= 4.0; the two
\* are never both appended.
C13_Advisory ==
    IsAssessment =>
        LET x == call.dirt.dirt_score
        IN  /\ IF x > 6000 THEN HasCriticalAdvisory(call.ret)
                            ELSE LacksCriticalAdvisory(call.ret)
            /\ IF x > 4000 /\ x <= 6000 THEN HasBelowStandardAdvisory(call.ret)
                                          ELSE LacksBelowStandardAdvisory(call.ret)
            /\ ~(HasCriticalAdvisory(call.ret) /\ HasBelowStandardAdvisory(call.ret))

\* A score of exactly 6.0, labelled very dirty, gets the below-standard
\* advisory and not the critical one.
C13_Witness ==
    /\ IsAssessment
    /\ call.dirt.dirt_score = 6000
    /\ call.dirt.dirt_status = VERY_DIRTY
    /\ HasBelowStandardAdvisory(call.ret)
    /\ LacksCriticalAdvisory(call.ret)

(***************************************************************************)
(* Claims about the rationale of determine_repairability, checked under    *)
(* SpecDecision.                                                           *)
(***************************************************************************)
\* Some line of the rationale msgs shows the value v (to one decimal).
ShowsValue(msgs, v) ==
    \E i \in 1..Len(msgs) : \E j \in 1..Len(msgs[i].args) : msgs[i].args[j] = Format1f(v)

\* C14: in every branch of the cascade the rationale lines returned by
\* determine_repairability include the numeric value that triggered the
\* branch: P_major in the major_damage branches, minor_severity (100 -
\* P_major) in the minor_damage branches.
C14_RationaleShowsValue ==
    (IsDecision /\ ValidDecisionInput) =>
        /\ call.predicted_class = "major_damage" =>
              ShowsValue(call.ret[2], call.major_damage_prob)
        /\ call.predicted_class = "minor_damage" =>
              ShowsValue(call.ret[2], 100000 - call.major_damage_prob)

\* The headings of the seven conclusion blocks (lines 381-436) and of the
\* five cleanliness blocks (lines 329-363).
ConclusionHeadings ==
    {"RECOMMENDED FOR PREMIUM SEGMENT:", "ADMITTED TO TAXI WORK:",
     "ADMITTED WITH REPAIR RECOMMENDATION:", "CONDITIONALLY ADMITTED TO WORK:",
     "RESTRICTED ADMISSION TO WORK:", "TEMPORARILY EXCLUDED - NEEDS REPAIR:",
     "EXCLUDED FROM THE FLEET FOREVER:"}

CleanlinessHeadings ==
    {"CRITICAL DIRT:", "SIGNIFICANT DIRT:", "MODERATE DIRT:",
     "GOOD CLEANLINESS:", "IDEAL CLEANLINESS:"}

\* The block written for each (status, economic_tag) pair and each label.
ConclusionHeadingOf(status, economic) ==
    CASE <<status, economic>> = <<"taxi_ready", "premium_ready">> -> "RECOMMENDED FOR PREMIUM SEGMENT:"
      [] <<status, economic>> = <<"taxi_ready", "minor_maintenance">> -> "ADMITTED TO TAXI WORK:"
      [] <<status, economic>> = <<"conditional_taxi", "image_improvement">> -> "ADMITTED WITH REPAIR RECOMMENDATION:"
      [] <<status, economic>> = <<"conditional_taxi", "cosmetic_repair">> -> "CONDITIONALLY ADMITTED TO WORK:"
      [] <<status, economic>> = <<"conditional_taxi", "restricted_operation">> -> "RESTRICTED ADMISSION TO WORK:"
      [] <<status, economic>> = <<"repair_required", "mandatory_repair">> -> "TEMPORARILY EXCLUDED - NEEDS REPAIR:"
      [] <<status, economic>> = <<"taxi_banned", "safety_violation">> -> "EXCLUDED FROM THE FLEET FOREVER:"
      [] OTHER -> "none"

CleanlinessHeadingOf(label) ==
    CASE label = VERY_DIRTY -> "CRITICAL DIRT:"
      [] label = DIRTY -> "SIGNIFICANT DIRT:"
      [] label = SLIGHTLY_DIRTY -> "MODERATE DIRT:"
      [] label = FAIRLY_CLEAN -> "GOOD CLEANLINESS:"
      [] label = VERY_CLEAN -> "IDEAL CLEANLINESS:"
      [] OTHER -> "none"

\* The headings of the given family that the report holds, and how often.
HeadingsIn(report, family) == {h \in family : CountOfLine(report, h) > 0}

\* C15: every (status, economic_tag) pair determine_repairability returns
\* selects exactly one conclusion block and every one of the five dirt
\* labels selects exactly one cleanliness block, the one written for it;
\* no input selects two blocks and no input selects none.
C15_OneBlockEach ==
    IsAssessment =>
        /\ HeadingsIn(call.ret, ConclusionHeadings) = {ConclusionHeadingOf(call.locals[1], call.locals[3])}
        /\ \A h \in ConclusionHeadings : CountOfLine(call.ret, h) <= 1
        /\ HeadingsIn(call.ret, CleanlinessHeadings) = {CleanlinessHeadingOf(call.dirt.dirt_status)}
        /\ \A h \in CleanlinessHeadings : CountOfLine(call.ret, h) <= 1

\* A slightly dirty car with a cosmetic_repair verdict: the moderate-dirt
\* block and the conditionally-admitted block, one of each.
C15_Witness ==
    /\ IsAssessment
    /\ call.dirt.dirt_status = SLIGHTLY_DIRTY
    /\ <<call.locals[1], call.locals[3]>> = <<"conditional_taxi", "cosmetic_repair">>
    /\ HeadingsIn(call.ret, CleanlinessHeadings) = {"MODERATE DIRT:"}
    /\ HeadingsIn(call.ret, ConclusionHeadings) = {"CONDITIONALLY ADMITTED TO WORK:"}

(***************************************************************************)
(* Claims about get_human_comment, checked under SpecComment.              *)
(***************************************************************************)
IsComment == call.fn = "get_human_comment"

\* The comment written for each label: the first comment of the branch of
\* lines 182-193 that names the label (the else branch for "очень чистая").
CommentWrittenFor(label) ==
    CASE label = VERY_DIRTY -> "car in terrible cleanliness - true damage cannot be assessed"
      [] label = DIRTY -> "car needs a good wash"
      [] label = SLIGHTLY_DIRTY -> "a little dust - overall acceptable"
      [] label = FAIRLY_CLEAN -> "car in good cleanliness"
      [] label = VERY_CLEAN -> "car perfectly clean - all details clearly visible"
      [] OTHER -> "none"

AllCleanlinessComments ==
    {CommentWrittenFor(l) : l \in {VERY_DIRTY, DIRTY, SLIGHTLY_DIRTY, FAIRLY_CLEAN, VERY_CLEAN}}

\* C16: get_human_comment gives each of the five dirt labels its own
\* cleanliness comment: the comments returned hold the comment written for
\* the label and the comment of no other label.
C16_OwnComment ==
    IsComment =>
        {c \in AllCleanlinessComments : CountOfLine(call.ret, c) > 0} = {CommentWrittenFor(call.dirt_status)}

(***************************************************************************)
(* Claims about runs of analyze_image_expert, checked under SpecExpert.    *)
(***************************************************************************)
HasDirt(q) == "analyze_dirt_level" \in q.done

HasPrediction(q) == "predict_damage" \in q.done

HasReport(q) == "generate_expert_assessment" \in q.done

\* C17: analyses are deterministic and independent of history: whatever
\* runs came before or go on alongside, the dirt score and label of a run
\* are those of its own pixel buffer, its oracle output is that of its own
\* model and image, its status, economic tag and rationale are those of its
\* own oracle output, and two runs with the same pixel buffer and the same
\* oracle output get identical results.
C17_Independent ==
    /\ \A r \in Requests :
         LET q == reqs[r]
         IN  /\ "preprocess_image" \in q.done => q.original_image = PixelsOf(q.image_filename)
             /\ HasDirt(q) => q.dirt = analyze_dirt_level(q.original_image)
             /\ HasPrediction(q) =>
                  q.prediction = predict_damage(SoftmaxOf(q.model, q.image_filename))
             /\ HasReport(q) =>
                  LET verdict == determine_repairability(q.prediction[1], q.prediction[2],
                                                         q.prediction[3][3] * 100)
                  IN  /\ TaxiFitnessSection(q.expert_report) = verdict[2]
                      /\ HeadingsIn(q.expert_report, ConclusionHeadings) =
                             {ConclusionHeadingOf(verdict[1], verdict[3])}
    /\ \A r \in Requests : \A p \in Requests :
         (HasDirt(reqs[r]) /\ HasDirt(reqs[p])
            /\ reqs[r].original_image = reqs[p].original_image) =>
             /\ reqs[r].dirt = reqs[p].dirt
             /\ (HasReport(reqs[r]) /\ HasReport(reqs[p])
                   /\ reqs[r].prediction = reqs[p].prediction) =>
                    reqs[r].expert_report = reqs[p].expert_report

\* Two runs side by side on dented.jpg, with the weights of finetuned.pth
\* and of no_f1.pth: the same dirt tuple, different oracle outputs, and each
\* report holds the rationale of its own oracle output.
C17_Witness ==
    /\ reqs[1].image_filename = "dented.jpg" /\ reqs[2].image_filename = "dented.jpg"
    /\ reqs[1].model = "finetuned.pth" /\ reqs[2].model = "no_f1.pth"
    /\ HasReport(reqs[1]) /\ HasReport(reqs[2])
    /\ reqs[1].dirt = reqs[2].dirt /\ reqs[1].dirt[3] = 6000
    /\ reqs[1].prediction[1] = "major_damage" /\ reqs[2].prediction[1] = "minor_damage"
    /\ TaxiFitnessSection(reqs[1].expert_report) = msgs_restricted_operation(50000)
    /\ TaxiFitnessSection(reqs[2].expert_report) = msgs_minor_maintenance

\* The major-damage probability as the rationale reports it: the "75.0" of
\* its second line, read back as a percentage.
ReportedMajorProb(msgs) == msgs[2].args[1] * 100

\* C18: round trip: re-deriving the status from the reported class,
\* confidence and major-damage probability reproduces exactly the (status,
\* economic_tag) that the report was assembled from.  (The status half of
\* the claim, on the verdicts whose rationale reports P_major.)
C18_RoundTrip ==
    (IsDecision /\ ValidDecisionInput /\ call.predicted_class = "major_damage") =>
        LET again == determine_repairability(call.predicted_class, call.confidence,
                                             ReportedMajorProb(call.ret[2]))
        IN  <<again[1], again[3]>> = Verdict

\* The other half of the round trip, on the runs of analyze_image_expert:
\* the label re-derived from the dirt_score stored in the returned metrics
\* is the label the report was assembled from.
LabelRoundTrip ==
    \A r \in Requests :
        HasReport(reqs[r]) =>
            LET q == reqs[r]
                label == dirt_status_of(q.dirt[4].dirt_score)[1]
            IN  /\ label = q.dirt[1]
                /\ HeadingsIn(q.expert_report, CleanlinessHeadings) = {CleanlinessHeadingOf(label)}

\* A run failed at a boundary: the image file is missing, or an exception
\* was caught (unreadable image, model load or inference failure).
FailedAtBoundary(q) ==
    \/ q.steps # << >> /\ q.error # "none"
    \/ "exists_check" \in q.done /\ ~FileExists(q.image_filename)

\* The first rationale line of each of the seven verdicts.
VerdictHeadlines ==
    {msgs_taxi_banned(0)[1].text, msgs_repair_required(0)[1].text,
     msgs_restricted_operation(0)[1].text, msgs_cosmetic_repair(0)[1].text,
     msgs_image_improvement(0)[1].text, msgs_minor_maintenance[1].text,
     msgs_premium_ready[1].text}

\* The console of a run shows a verdict or a line of the expert report.
ShowsVerdictOrReport(q) ==
    \E i \in 1..Len(q.console) :
        q.console[i].text \in VerdictHeadlines \cup ConclusionHeadings
                               \cup CleanlinessHeadings \cup {"EXPERT CONCLUSION"}

\* No step was entered twice.
NoStepRepeated(q) ==
    \A i \in 1..Len(q.steps) : \A j \in 1..Len(q.steps) : q.steps[i] = q.steps[j] => i = j

\* The step that failed is the last one entered.
EndedAtFailure(q) ==
    /\ q.steps # << >>
    /\ IF q.error # "none" THEN q.steps[Len(q.steps)] \notin q.done
                           ELSE q.steps = << "exists_check" >>

\* C19: a failure at a boundary (unreadable image, model load or inference
\* failure) is surfaced to the caller of the analysis as an immediate
\* failure (an exception leaves analyze_image_expert), with no retry and
\* with no verdict or partial report produced for that request.
C19_FailureRaised ==
    \A r \in Requests :
        (FailedAtBoundary(reqs[r]) /\ reqs[r].pc = "returned") =>
            /\ reqs[r].raised
            /\ NoStepRepeated(reqs[r])
            /\ ~ShowsVerdictOrReport(reqs[r])

\* What the code does with a failure at a boundary: the run ends at once,
\* with no retry and with no verdict or report line printed, but nothing is
\* raised to the caller: the run prints a message (for an exception, the
\* error and its traceback) and returns normally.
FailurePrintedNotRaised ==
    \A r \in Requests :
        LET q == reqs[r]
        IN  FailedAtBoundary(q) =>
                /\ EndedAtFailure(q)
                /\ NoStepRepeated(q)
                /\ ~ShowsVerdictOrReport(q)
                /\ q.expert_report = Unbound
                /\ ~q.raised
                /\ q.pc \in {"except", "returned"}
                /\ q.pc = "returned" =>
                     q.console[Len(q.console)].text =
                        (IF q.error = "none" THEN "image not found" ELSE "traceback")

\* A run on a file that is not an image: the model was loaded, preprocessing
\* raised, the handler printed the error and the run returned.
FailureSwallowed ==
    /\ reqs[1].image_filename = "corrupt.jpg"
    /\ reqs[1].error = "unreadable_image"
    /\ reqs[1].pc = "returned"
    /\ reqs[1].steps = << "exists_check", "load_model", "preprocess_image" >>
    /\ ~reqs[1].raised

\* Sequence s is an initial part of sequence t.
IsPrefix(s, t) == Len(s) <= Len(t) /\ \A i \in 1..Len(s) : s[i] = t[i]

\* C20: the steps of analyze_image_expert are entered in the order image
\* existence check, model load, preprocessing, dirt scoring, oracle
\* prediction, assessment generation, printing; the assessment (and with it
\* determine_repairability) is entered only when the dirt assessment and the
\* prediction have completed; no report line is printed before the whole
\* assessment is built; with the image file missing no later step is entered.
C20_StepOrder ==
    \A r \in Requests :
        LET q == reqs[r]
        IN  /\ IsPrefix(q.steps, << "exists_check", "load_model", "preprocess_image",
                                    "analyze_dirt_level", "predict_damage",
                                    "generate_expert_assessment", "print" >>)
            /\ (\E i \in 1..Len(q.steps) : q.steps[i] = "generate_expert_assessment") =>
                   (HasDirt(q) /\ HasPrediction(q))
            /\ ShowsVerdictOrReport(q) =>
                   (HasReport(q) /\ "print" \in q.done)
            /\ ("exists_check" \in q.done /\ ~FileExists(q.image_filename)) =>
                   (q.steps = << "exists_check" >> /\ q.pc = "returned")

\* A complete run on wreck.jpg: all seven steps in order, the report
\* printed at the end.
C20_Witness ==
    /\ reqs[1].image_filename = "wreck.jpg"
    /\ reqs[1].pc = "returned"
    /\ Len(reqs[1].steps) = 7
    /\ reqs[1].steps[4] = "analyze_dirt_level" /\ reqs[1].steps[5] = "predict_damage"
    /\ ShowsVerdictOrReport(reqs[1])

\* C21: the cleanliness outputs of a run agree with each other: the report
\* holds the critical-cleanliness advisory exactly when the label of the
\* image is very dirty, and the below-standard advisory exactly when the
\* label is dirty.
C21_AdvisoryMatchesLabel ==
    \A r \in Requests :
        HasReport(reqs[r]) =>
            /\ HasCriticalAdvisory(reqs[r].expert_report) <=> (reqs[r].dirt[1] = VERY_DIRTY)
            /\ HasBelowStandardAdvisory(reqs[r].expert_report) <=> (reqs[r].dirt[1] = DIRTY)

(***************************************************************************)
(* Claims about determine_repairability on the output of predict_damage,   *)
(* checked under SpecOracle.                                               *)
(***************************************************************************)
\* The call has the shape predict_damage gives it: three probabilities that
\* sum to 1, the class of the largest, the largest as the confidence, and
\* P_major = 100 * probabilities[major_damage].
OracleShaped ==
    /\ IsDecision
    /\ call.probabilities[1] + call.probabilities[2] + call.probabilities[3] = 1000
    /\ \A j \in 1..3 : call.probabilities[j] >= 0 /\ call.probabilities[j] <= call.confidence
    /\ \E i \in 1..3 : class_names[i] = call.predicted_class /\ call.probabilities[i] = call.confidence
    /\ call.major_damage_prob = call.probabilities[3] * 100

\* C22: with inputs as predict_damage produces them every one of the seven
\* economic tags is returned for some softmax output; in particular some
\* output yields conditional_taxi / cosmetic_repair and some yields
\* conditional_taxi / restricted_operation.  (Stated of the softmax outputs
\* of the model, at any call made with one of them.)
C22_AllTagsReachable ==
    OracleShaped =>
        /\ \A tag \in EconomicTags :
             \E probabilities \in OracleVectors : oracle_verdict(probabilities)[3] = tag
        /\ \E probabilities \in OracleVectors :
             <<oracle_verdict(probabilities)[1], oracle_verdict(probabilities)[3]>> = <<"conditional_taxi", "cosmetic_repair">>
        /\ \E probabilities \in OracleVectors :
             <<oracle_verdict(probabilities)[1], oracle_verdict(probabilities)[3]>> = <<"conditional_taxi", "restricted_operation">>

\* What holds instead: a major_damage prediction has P_major above 33.3, so
\* the branch of line 195 (P_major <= 25) is never taken.
CosmeticRepairNeverReturned ==
    OracleShaped =>
        /\ Verdict[2] # "cosmetic_repair"
        /\ call.predicted_class = "major_damage" => call.major_damage_prob > 33333

\* The other six tags are each returned by some call.
RestrictedOperationReturned ==
    OracleShaped /\ Verdict = <<"conditional_taxi", "restricted_operation">>

\* C23: with inputs as predict_damage produces them and predicted class
\* minor_damage, P_major is at most 50, the clause minor_severity > 40.0 is
\* true, and the verdict is conditional_taxi / image_improvement exactly when
\* confidence > 0.6 and taxi_ready / minor_maintenance otherwise.
C23_MinorClauseVacuous ==
    (OracleShaped /\ call.predicted_class = "minor_damage") =>
        /\ call.major_damage_prob <= 50000
        /\ 100000 - call.major_damage_prob > 40000
        /\ Verdict = (IF call.confidence > 600
                      THEN <<"conditional_taxi", "image_improvement">>
                      ELSE <<"taxi_ready", "minor_maintenance">>)

\* The softmax output (0, 0.5, 0.5): minor_damage by the first maximum, with
\* P_major exactly 50 and confidence 0.5, is taxi_ready / minor_maintenance.
C23_Witness ==
    /\ OracleShaped
    /\ call.probabilities = <<0, 500, 500>>
    /\ call.predicted_class = "minor_damage"
    /\ Verdict = <<"taxi_ready", "minor_maintenance">>

(***************************************************************************)
(* Claims about two calls of determine_repairability, checked under        *)
(* SpecRaise.                                                              *)
(***************************************************************************)
IsDecisionRerun == IsDecision /\ prev.fn = "determine_repairability"

\* The order taxi_ready < conditional_taxi < repair_required < taxi_banned.
Severity(status) ==
    CASE status = "taxi_ready" -> 0
      [] status = "conditional_taxi" -> 1
      [] status = "repair_required" -> 2
      [] status = "taxi_banned" -> 3
      [] OTHER -> 4

\* C24: for a fixed predicted class and a fixed confidence, raising P_major
\* never moves the status returned by determine_repairability to a less
\* severe one, in the order taxi_ready < conditional_taxi < repair_required
\* < taxi_banned.
C24_MonotoneInPMajor ==
    (/\ IsDecisionRerun
     /\ ValidDecisionInput
     /\ prev.major_damage_prob >= 0
     /\ call.predicted_class = prev.predicted_class
     /\ call.confidence = prev.confidence
     /\ call.major_damage_prob > prev.major_damage_prob) =>
        Severity(call.ret[1]) >= Severity(prev.ret[1])

\* What holds instead: the status never becomes less severe when the class
\* is not minor_damage.
MonotoneExceptMinor ==
    (IsDecisionRerun /\ call.predicted_class # "minor_damage") =>
        Severity(call.ret[1]) >= Severity(prev.ret[1])

(***************************************************************************)
(* Claims about the two implementations of analyze_dirt_level, checked     *)
(* under SpecEquivalent.                                                   *)
(***************************************************************************)
IsDirtPair ==
    /\ call.fn = "aci_analyze_dirt_level"
    /\ prev.fn = "analyze_dirt_level"
    /\ call.image = prev.image

\* C27: the two implementations of analyze_dirt_level (analyze_car_image.py
\* and expert_analyzer.py) compute the same dirt score and the same label for
\* every combination of the six metrics: the score analyze_car_image shows in
\* its details string is the score expert_analyzer returns, and the labels
\* are equal.
C27_SameScoreAndLabel ==
    IsDirtPair =>
        /\ call.ret[1] = prev.ret[1]
        /\ call.ret[3].args = <<Format1f(prev.ret[3])>>
        /\ aci_compute_dirt_score(call.image) = prev.ret[3]
        /\ prev.ret[4].dirt_score = prev.ret[3]

\* An image in the darkest brightness band that scores exactly 4.0: both
\* implementations call it dirty.
C27_Witness ==
    /\ IsDirtPair
    /\ call.image.brightness < 90000
    /\ prev.ret[3] = 4000
    /\ prev.ret[1] = DIRTY /\ call.ret[1] = DIRTY

=============================================================================
